---- MODULE Spec2Model ----
(***************************************************************************)
(* Model of the pipeline-sage backend: one run of Orchestrator.run, the    *)
(* run registry (runStore.js), the WebSocket fan-out (socket.js) and the   *)
(* two places the run touches on disk, tmp/{runId} and                     *)
(* results/{runId}.json.                                                   *)
(*                                                                         *)
(* Node.js runs one task at a time: code between two awaits is atomic.     *)
(* Each action below is therefore the completion of one awaited operation  *)
(* followed by all the synchronous code up to the next await.  Runs share  *)
(* no state but the client set (directories, result files and registry     *)
(* entries are keyed by a uuid), so the model follows one run.             *)
(* Timestamps are not modelled.                                            *)
(***************************************************************************)
EXTENDS Integers, Sequences, FiniteSets, TLC

\* ---- bounds of the model ------------------------------------------------
MaxRetryLimit == 2      \* RETRY_LIMIT ranges over 1..MaxRetryLimit
MaxPolls      == 1      \* polls of pollWorkflowStatus before its timeout
MaxBudget     == 5      \* RETRY_LIMIT ranges over 1..MaxBudget in ExhaustSpec
MaxNameLen    == 3      \* length of a team or leader name in BranchSpec
MaxFileLen    == 3      \* bytes of the patched file in PatchSpec
MaxPatchList  == 2      \* proposals in one applyFixes call in PatchSpec
MaxLogLines   == 3      \* lines of the log given to parseErrorLog in ParseSpec
MaxModels     == 3      \* models in FALLBACK_MODELS in ChainSpec

Clients == {"ws1"}
Files   == {"a.js", "b.js"}
Undefined == "undefined"

\* part_012:15 (the two sides of the speed-bonus threshold)
TotalTimes == {200000, 400000}

VARIABLES
  RETRY_LIMIT,    \* part_010:27, read from the environment at start-up
  pc,             \* the await the run is suspended at
  run,            \* the registry entry of the run (runStore.js), or NoRun
  tmpDir,         \* TRUE iff tmp/{runId} exists on disk
  resultsFile,    \* content of results/{runId}.json, or NoFile
  repoDir,        \* Orchestrator.run's local repoDir: TRUE iff not null
  finalStatus,    \* Orchestrator.run's local finalStatus
  iteration,      \* Orchestrator.run's local iteration
  timeline,       \* this.timeline
  allFixes,       \* this.allFixes
  totalCommits,   \* this.totalCommits
  totalFailures,  \* this.totalFailures
  fixes,          \* proposals of the current iteration
  appliedFixes,   \* applied fixes of the current iteration
  commitCount,    \* commitFixes' result, kept while pushBranch is awaited
  polls,          \* polls made by the pending pollWorkflowStatus call
  results,        \* the report built by buildResults, or NoReport
  emitted,        \* history: every payload given to broadcast, in call order
  clients,        \* socket.js clients: state of each connection
  received,       \* what each connection was sent while it is OPEN
  trace,          \* history: the agent steps invoked, what monitorCI
                  \* did, saw (a completed workflow run and its
                  \* conclusion, or its timeout) and returned, a response
                  \* of the LLM without a JSON array, a failed LLM call and
                  \* a step that threw, as <<iteration, step>>; a
                  \* completed workflow run is <<iteration, "completed",
                  \* conclusion>>, followed by its origin when it is
                  \* taken as a pass
  patched,        \* history: the proposals written to the working tree
  pushed,         \* history: the commits that git push sent to the remote
  gitLog,         \* history: the commits that git commit created, as
                  \* [iteration, file, message]
  chain,          \* the locals of the pending _invokeWithFallback call and
                  \* history: its invocations of a model, or NoChain
  arg,            \* the input of the pure function under study, or NoArg
  ret             \* its result, or NoRet

vars == <<RETRY_LIMIT, pc, run, tmpDir, resultsFile, repoDir, finalStatus,
          iteration, timeline, allFixes, totalCommits, totalFailures, fixes,
          appliedFixes, commitCount, polls, results, emitted, clients,
          received, trace, patched, pushed, gitLog, chain, arg, ret>>

NoRun    == [status |-> "none"]
NoFile   == [absent |-> TRUE]
NoReport == [absent |-> TRUE]
NoData   == [absent |-> TRUE]
NoArg    == [fn |-> "none"]
NoChain  == [at |-> "none"]
NoRet    == [absent |-> TRUE]

\* ---- pure helpers ---------------------------------------------------------

Max(a, b) == IF a > b THEN a ELSE b
Min(a, b) == IF a < b THEN a ELSE b

RECURSIVE SelectFixed(_)
\* appliedFixes.filter((f) => f.status === "Fixed")
SelectFixed(fs) ==
  IF fs = <<>> THEN <<>>
  ELSE IF Head(fs).status = "Fixed" THEN <<Head(fs)>> \o SelectFixed(Tail(fs))
       ELSE SelectFixed(Tail(fs))

FixedCount(fs) == Len(SelectFixed(fs))

\* computeScore giving the speed bonus at exactly five minutes as well
computeScore_SpeedInclusive(totalTime, commits, fixCount, iterationCount) ==
  LET base        == 100
      speedBonus  == IF totalTime <= 300000 THEN 10 ELSE 0
      fixBonus    == Min(fixCount, 20) * 2
      commitPen   == IF commits > 20 THEN (commits - 20) * 2 ELSE 0
      iterPen     == IF iterationCount > 3 THEN (iterationCount - 3) * 5 ELSE 0
      total       == base + speedBonus + fixBonus - commitPen - iterPen
  IN [base |-> base, speedBonus |-> speedBonus, fixBonus |-> fixBonus,
      commitPenalty |-> 0 - commitPen, iterationPenalty |-> 0 - iterPen,
      total |-> Max(total, 0)]

\* computeScore returning the sum without the clamp at 0
computeScore_NoClamp(totalTime, commits, fixCount, iterationCount) ==
  LET base        == 100
      speedBonus  == IF totalTime < 300000 THEN 10 ELSE 0
      fixBonus    == Min(fixCount, 20) * 2
      commitPen   == IF commits > 20 THEN (commits - 20) * 2 ELSE 0
      iterPen     == IF iterationCount > 3 THEN (iterationCount - 3) * 5 ELSE 0
      total       == base + speedBonus + fixBonus - commitPen - iterPen
  IN [base |-> base, speedBonus |-> speedBonus, fixBonus |-> fixBonus,
      commitPenalty |-> 0 - commitPen, iterationPenalty |-> 0 - iterPen,
      total |-> total]

\* scoring.js computeScore
computeScore(totalTime, commits, fixCount, iterationCount) ==
  LET base        == 100
      speedBonus  == IF totalTime < 300000 THEN 10 ELSE 0
      fixBonus    == Min(fixCount, 20) * 2
      commitPen   == IF commits > 20 THEN (commits - 20) * 2 ELSE 0
      iterPen     == IF iterationCount > 3 THEN (iterationCount - 3) * 5 ELSE 0
      total       == base + speedBonus + fixBonus - commitPen - iterPen
  IN [base |-> base, speedBonus |-> speedBonus, fixBonus |-> fixBonus,
      commitPenalty |-> 0 - commitPen, iterationPenalty |-> 0 - iterPen,
      total |-> Max(total, 0)]

\* Orchestrator.addTimeline
addTimeline(tl, i, status) == Append(tl, [iteration |-> i, status |-> status])

\* buildResults counting the entry of the initial analysis as an iteration
iterationCount_CountsAnalysis(tl) == Len(tl)

\* the iterationCount buildResults gives to computeScore (part_010:213)
iterationCount(tl) == Len(tl) - 1

\* Orchestrator.buildResults: the report object.  fixes is a fresh array of
\* fresh objects, timeline is this.timeline itself.
buildResults(fstatus, totalTime, tl, fxs, commits, failures) ==
  [finalStatus   |-> fstatus,
   totalFailures |-> failures,
   totalFixes    |-> FixedCount(fxs),
   totalCommits  |-> commits,
   totalTimeMs   |-> totalTime,
   scoreBreakdown |-> computeScore(totalTime, commits, FixedCount(fxs),
                                   iterationCount(tl)),
   fixes    |-> [k \in 1..Len(fxs) |->
                   [file |-> fxs[k].file, status |-> fxs[k].status]],
   timeline |-> tl]

\* JSON.stringify of one fix of the report: a property whose value is
\* undefined is left out, every other property is kept.
FixToJson(f) ==
  IF f.file = Undefined THEN [status |-> f.status]
  ELSE [file |-> f.file, status |-> f.status]

\* JSON.stringify of a report (fs.writeJson, broadcast, res.json)
ToJson(r) ==
  [finalStatus   |-> r.finalStatus,
   totalFailures |-> r.totalFailures,
   totalFixes    |-> r.totalFixes,
   totalCommits  |-> r.totalCommits,
   totalTimeMs   |-> r.totalTimeMs,
   scoreBreakdown |-> r.scoreBreakdown,
   fixes    |-> [k \in 1..Len(r.fixes) |-> FixToJson(r.fixes[k])],
   timeline |-> r.timeline]

\* ---- runStore.js ------------------------------------------------------------

\* createRun
createRun ==
  [status |-> "running", completedAt |-> FALSE, logs |-> <<>>,
   result |-> NoReport]

\* updateRun that leaves the result out of the update
updateRun_DropsResult(r, status, result) ==
  IF r = NoRun THEN r
  ELSE [r EXCEPT !.status = status, !.completedAt = TRUE]

\* updateRun: Object.assign on the entry, nothing when the id is unknown
updateRun(r, status, result) ==
  IF r = NoRun THEN r
  ELSE [r EXCEPT !.status = status, !.completedAt = TRUE, !.result = result]

\* appendLog, for a sequence of entries
appendLog(r, entries) ==
  IF r = NoRun THEN r ELSE [r EXCEPT !.logs = @ \o entries]

\* run.logs.slice(-n)
slice(q, n) == SubSeq(q, Max(1, Len(q) - n + 1), Len(q))

\* the number of log entries GET /results/:runId returns for a running run
LogWindow == 20

\* GET /results/:runId for the registry entry r
getResults(r) ==
  IF r = NoRun THEN [code |-> 404]
  ELSE IF r.status = "running"
  THEN [code |-> 200, status |-> "processing",
        logs |-> slice(r.logs, LogWindow)]
  ELSE [code |-> 200, status |-> r.status, completedAt |-> r.completedAt,
        result |-> r.result]

\* ---- socket.js --------------------------------------------------------------

Ev(name) == [event |-> name, data |-> NoData]

\* broadcast that hands a client the newest payload first
broadcast_NewestFirst(evs) ==
  /\ emitted' = emitted \o evs
  /\ received' = [c \in DOMAIN clients |->
                    IF clients[c] = "open" THEN evs \o received[c]
                    ELSE received[c]]

\* broadcast whose loop over the clients ends at a client whose socket
\* cannot deliver
broadcast_StopsAtFailed(evs) ==
  /\ emitted' = emitted \o evs
  /\ received' = [c \in DOMAIN clients |->
                    IF /\ clients[c] = "open"
                       /\ \A d \in DOMAIN clients : clients[d] # "broken"
                    THEN received[c] \o evs
                    ELSE received[c]]

\* broadcast, for the payloads evs of consecutive calls: each payload is
\* serialised and sent to every client whose readyState is OPEN; the
\* delivery itself is asynchronous (a write that fails is reported by the
\* socket's error event, not by send)
broadcast(evs) ==
  /\ emitted' = emitted \o evs
  /\ received' = [c \in DOMAIN clients |->
                    IF clients[c] = "open" THEN received[c] \o evs
                    ELSE received[c]]

\* ---- FixerAgent ----------------------------------------------------------------

\* A proposal as applyFixes sees it: its file; complete, whether file,
\* originalCode and fixedCode are all non-empty; and match, how it meets the
\* working tree: "substring" (the file holds originalCode), "line" (it does
\* not, lineNumber is a line of the file), "none" (neither), "nofile" (the
\* file does not exist), "ioerror" (reading or writing the file throws).
P(f, c, m) == [file |-> f, complete |-> c, match |-> m]

\* an element of the parsed array that is the JSON value null: applyFixes
\* reads fix.file outside its try block, which throws a TypeError
Null == P(Undefined, FALSE, "null")

\* the index of the first null element of fx, 0 when it has none
NullIndex(fx) ==
  IF \E k \in 1..Len(fx) : fx[k] = Null
  THEN CHOOSE k \in 1..Len(fx) :
         fx[k] = Null /\ \A j \in 1..(k - 1) : fx[j] # Null
  ELSE 0

\* the status applyFixes gives one proposal (part_011:371-418)
FixStatus(p) ==
  IF ~p.complete THEN "Skipped"
  ELSE IF p.match \in {"substring", "line"} THEN "Fixed"
  ELSE "Failed"

\* applyFixes: one applied fix for each proposal, in input order
applyFixes(fx) ==
  [k \in 1..Len(fx) |-> [file |-> fx[k].file, status |-> FixStatus(fx[k])]]

\* the number of fix_applied payloads applyFixes broadcasts: one for each
\* fix applied by substring replacement (part_011:409-414)
FixAppliedEvents(fx) ==
  Cardinality({k \in 1..Len(fx) : fx[k].complete /\ fx[k].match = "substring"})

\* what generateFixes can return when the response holds a JSON array
ProposalLists ==
  { <<>>,
    <<P("a.js", TRUE, "substring")>>,
    <<P("a.js", TRUE, "substring"), P("b.js", TRUE, "line")>>,
    <<P("a.js", TRUE, "line"), P("a.js", TRUE, "substring"),
      P("b.js", TRUE, "none")>>,
    <<P("a.js", TRUE, "nofile"), P("b.js", TRUE, "ioerror"),
      P(Undefined, FALSE, "none")>>,
    <<P("a.js", TRUE, "line"), Null>> }

\* what parseErrorLog can have returned, each error by its file
ParsedErrors == { <<>>, <<"a.js">>, <<"a.js", "b.js">> }

\* a fallback whose proposals carry code
placeholders_WithCode(parsedErrors) ==
  [k \in 1..Len(parsedErrors) |-> P(parsedErrors[k], TRUE, "line")]

\* the catch block of generateFixes (part_011:342-350): for each parsed
\* error one proposal with empty originalCode and fixedCode
placeholders(parsedErrors) ==
  [k \in 1..Len(parsedErrors) |-> P(parsedErrors[k], FALSE, "none")]

\* what generateFixes returns when the LLM call failed
PlaceholderLists == {placeholders(errs) : errs \in ParsedErrors}

\* the files commitFixes groups the Fixed fixes by
FixedFiles(ap) == {ap[k].file : k \in {j \in 1..Len(ap) : ap[j].status = "Fixed"}}

Repeat(e, n) == [k \in 1..n |-> e]

\* ---- Orchestrator.run ---------------------------------------------------------

\* no run submitted, no client connected
QuietRun ==
  /\ pc = "idle"
  /\ run = NoRun
  /\ tmpDir = FALSE
  /\ resultsFile = NoFile
  /\ repoDir = FALSE
  /\ finalStatus = "FAILED"
  /\ iteration = 0
  /\ timeline = <<>>
  /\ allFixes = <<>>
  /\ totalCommits = 0
  /\ totalFailures = 0
  /\ fixes = <<>>
  /\ appliedFixes = <<>>
  /\ commitCount = 0
  /\ polls = 0
  /\ results = NoReport
  /\ emitted = <<>>
  /\ trace = <<>>
  /\ patched = 0
  /\ pushed = 0
  /\ gitLog = <<>>

Quiet ==
  /\ QuietRun
  /\ chain = NoChain
  /\ clients = [c \in Clients |-> "none"]
  /\ received = [c \in Clients |-> <<>>]

Init ==
  /\ RETRY_LIMIT \in 1..MaxRetryLimit
  /\ Quiet
  /\ arg = NoArg
  /\ ret = NoRet

\* part_010:158-163: buildResults, then saveResults up to its first await
Report(fstatus, tl, fxs, commits, failures) ==
  /\ \E t \in TotalTimes :
       results' = buildResults(fstatus, t, tl, fxs, commits, failures)
  /\ pc' = "saveResults"

\* a loop head that starts the iteration at applyFixes
LoopHead_SkipsGenerate(i, evs, tl, commits, failures, tr) ==
  /\ iteration' = i
  /\ IF i <= RETRY_LIMIT
     THEN /\ broadcast(evs \o <<Ev("iteration_start")>>)
          /\ trace' = Append(tr, <<i, "applyFixes">>)
          /\ pc' = "gatherContext"
          /\ results' = results
     ELSE /\ broadcast(evs)
          /\ trace' = tr
          /\ Report(finalStatus, tl, allFixes, commits, failures)

\* part_010:89-100: the loop test for iteration i, then the head of the loop
\* body up to generateFixes' first await; evs are the payloads broadcast
\* before the loop test in the same task, tr the trace up to it
LoopHead(i, evs, tl, commits, failures, tr) ==
  /\ iteration' = i
  /\ IF i <= RETRY_LIMIT
     THEN /\ broadcast(evs \o <<Ev("iteration_start")>>)
          /\ trace' = Append(tr, <<i, "generateFixes">>)
          /\ pc' = "gatherContext"
          /\ results' = results
     ELSE /\ broadcast(evs)
          /\ trace' = tr
          /\ Report(finalStatus, tl, allFixes, commits, failures)

\* POST /run-agent: createRun, new Orchestrator, run() up to cloneRepo's
\* fs.ensureDir
Submit ==
  /\ pc = "idle"
  /\ run' = createRun
  /\ broadcast(<<Ev("pipeline_start")>>)
  /\ trace' = Append(trace, <<0, "analyze">>)
  /\ pc' = "ensureDir"
  /\ UNCHANGED <<RETRY_LIMIT, arg, ret, chain, patched, pushed, gitLog, tmpDir,
                 resultsFile, repoDir, finalStatus, iteration, timeline,
                 allFixes, totalCommits, totalFailures, fixes, appliedFixes,
                 commitCount, polls, results, clients>>

\* cloneRepo: fs.ensureDir(tmp/{runId}) returns
EnsureDir ==
  /\ pc = "ensureDir"
  /\ tmpDir' = TRUE
  /\ broadcast(<<Ev("clone_start")>>)
  /\ pc' = "clone"
  /\ UNCHANGED <<RETRY_LIMIT, arg, ret, chain, patched, pushed, gitLog, run,
                 resultsFile, repoDir, finalStatus, iteration, timeline,
                 allFixes, totalCommits, totalFailures, fixes, appliedFixes,
                 commitCount, polls, results, clients, trace>>

\* cloneRepo: the shallow clone, or the full clone after it, succeeds
Clone ==
  /\ pc = "clone"
  /\ broadcast(<<Ev("clone_done")>>)
  /\ run' = appendLog(run, <<"clone_done">>)
  /\ pc' = "detectProject"
  /\ UNCHANGED <<RETRY_LIMIT, arg, ret, chain, patched, pushed, gitLog, tmpDir,
                 resultsFile, repoDir, finalStatus, iteration, timeline,
                 allFixes, totalCommits, totalFailures, fixes, appliedFixes,
                 commitCount, polls, results, clients, trace>>

\* detectProject: fs.readdir returns
DetectProject ==
  /\ pc = "detectProject"
  /\ broadcast(<<Ev("detect_done")>>)
  /\ pc' = "discoverTests"
  /\ UNCHANGED <<RETRY_LIMIT, arg, ret, chain, patched, pushed, gitLog, run, tmpDir,
                 resultsFile, repoDir, finalStatus, iteration, timeline,
                 allFixes, totalCommits, totalFailures, fixes, appliedFixes,
                 commitCount, polls, results, clients, trace>>

\* discoverTests: the walk returns; runTests up to runInDocker
DiscoverTests ==
  /\ pc = "discoverTests"
  /\ broadcast(<<Ev("tests_discovered"), Ev("tests_start")>>)
  /\ pc' = "analyzeTests"
  /\ UNCHANGED <<RETRY_LIMIT, arg, ret, chain, patched, pushed, gitLog, run, tmpDir,
                 resultsFile, repoDir, finalStatus, iteration, timeline,
                 allFixes, totalCommits, totalFailures, fixes, appliedFixes,
                 commitCount, polls, results, clients, trace>>

\* Orchestrator.run entering the fix loop whatever the initial tests did
AnalyzeTests_AlwaysRepairs(passed) ==
  /\ pc = "analyzeTests"
  /\ run' = appendLog(run, <<"tests_done">>)
  /\ repoDir' = TRUE
  /\ timeline' = addTimeline(timeline, 0, IF passed THEN "PASSED" ELSE "FAILED")
  /\ totalFailures' = IF passed THEN totalFailures ELSE totalFailures + 1
  /\ finalStatus' = IF passed THEN "PASSED" ELSE finalStatus
  /\ LoopHead(1, <<Ev("tests_done")>>, timeline', totalCommits,
              totalFailures', trace)
  /\ UNCHANGED <<RETRY_LIMIT, arg, ret, chain, patched, pushed, gitLog, tmpDir,
                 resultsFile, allFixes, totalCommits, fixes, appliedFixes,
                 commitCount, polls, clients>>

\* the initial runTests returns: analyze returns, part_010:77-100
AnalyzeTests(passed) ==
  /\ pc = "analyzeTests"
  /\ run' = appendLog(run, <<"tests_done">>)
  /\ repoDir' = TRUE
  /\ timeline' = addTimeline(timeline, 0, IF passed THEN "PASSED" ELSE "FAILED")
  /\ IF passed
     THEN /\ finalStatus' = "PASSED"
          /\ broadcast(<<Ev("tests_done")>>)
          /\ Report("PASSED", timeline', allFixes, totalCommits, totalFailures)
          /\ UNCHANGED <<totalFailures, iteration, trace>>
     ELSE /\ totalFailures' = totalFailures + 1
          /\ finalStatus' = finalStatus
          /\ LoopHead(1, <<Ev("tests_done")>>, timeline', totalCommits,
                      totalFailures', trace)
  /\ UNCHANGED <<RETRY_LIMIT, arg, ret, chain, patched, pushed, gitLog, tmpDir,
                 resultsFile, allFixes, totalCommits, fixes, appliedFixes,
                 commitCount, polls, clients>>

\* generateFixes: the source context of every parsed error has been read
GatherContext ==
  /\ pc = "gatherContext"
  /\ broadcast(<<Ev("fix_generate_start")>>)
  /\ pc' = "invokeLLM"
  /\ UNCHANGED <<RETRY_LIMIT, arg, ret, chain, patched, pushed, gitLog, run, tmpDir,
                 resultsFile, repoDir, finalStatus, iteration, timeline,
                 allFixes, totalCommits, totalFailures, fixes, appliedFixes,
                 commitCount, polls, results, clients, trace>>

\* the trace entry of a failed LLM call in iteration i that was answered
\* with the proposals fx: it holds the number of parsed errors
LlmFailed(i, fx) ==
  <<i, "llmFailed",
    Len(CHOOSE errs \in ParsedErrors : fx = placeholders(errs))>>

\* generateFixes: _invokeWithFallback returns or throws.  outcome "array":
\* the response holds a JSON array, fx; "noArray": it holds none;
\* "failed": the call threw, fx is one placeholder per parsed error.
\* Then part_010:102-109.
InvokeLLM(outcome, fx) ==
  /\ pc = "invokeLLM"
  /\ \/ outcome = "array"   /\ fx \in ProposalLists
     \/ outcome = "noArray" /\ fx = <<>>
     \/ outcome = "failed"  /\ fx \in PlaceholderLists
  /\ fixes' = fx
  /\ broadcast(<<Ev("fix_generate_done")>>)
  /\ IF Len(fx) = 0
     THEN /\ timeline' = addTimeline(timeline, iteration, "NO_FIXES")
          /\ Report(finalStatus, timeline', allFixes, totalCommits,
                    totalFailures)
          /\ trace' = IF outcome = "noArray"
                      THEN Append(trace, <<iteration, "noJsonArray">>)
                      ELSE IF outcome = "failed"
                      THEN Append(trace, LlmFailed(iteration, fx))
                      ELSE trace
     ELSE /\ timeline' = timeline
          /\ trace' = IF outcome = "failed"
                      THEN trace \o <<LlmFailed(iteration, fx),
                                      <<iteration, "applyFixes">>>>
                      ELSE Append(trace, <<iteration, "applyFixes">>)
          /\ pc' = "applyFixes"
          /\ results' = results
  /\ UNCHANGED <<RETRY_LIMIT, arg, ret, chain, patched, pushed, gitLog, run, tmpDir,
                 resultsFile, repoDir, finalStatus, iteration, allFixes,
                 totalCommits, totalFailures, appliedFixes, commitCount,
                 polls, clients>>

\* Orchestrator.run without the break at part_010:113-117
ApplyFixes_NoBreak ==
  /\ pc = "applyFixes"
  /\ NullIndex(fixes) = 0
  /\ patched' = patched + FixedCount(applyFixes(fixes))
  /\ fixes' = <<>>
  /\ appliedFixes' = applyFixes(fixes)
  /\ allFixes' = allFixes \o applyFixes(fixes)
  /\ run' = appendLog(run, <<"fixes_applied">>)
  /\ broadcast(Repeat(Ev("fix_applied"), FixAppliedEvents(fixes)))
  /\ timeline' = timeline
  /\ trace' = Append(trace, <<iteration, "commitAndPush">>)
  /\ pc' = "ensureBranch"
  /\ results' = results
  /\ UNCHANGED <<RETRY_LIMIT, arg, ret, chain, pushed, gitLog, tmpDir, resultsFile,
                 repoDir, finalStatus, iteration, totalCommits, totalFailures,
                 commitCount, polls, clients>>

\* applyFixes returns; then part_010:110-120 and ensureBranch up to its
\* first await
ApplyFixes ==
  /\ pc = "applyFixes"
  /\ NullIndex(fixes) = 0
  /\ patched' = patched + FixedCount(applyFixes(fixes))
  /\ fixes' = <<>>
  /\ appliedFixes' = IF FixedCount(applyFixes(fixes)) = 0 THEN <<>>
                     ELSE applyFixes(fixes)
  /\ allFixes' = allFixes \o applyFixes(fixes)
  /\ run' = appendLog(run, <<"fixes_applied">>)
  /\ broadcast(Repeat(Ev("fix_applied"), FixAppliedEvents(fixes)))
  /\ IF FixedCount(applyFixes(fixes)) = 0
     THEN /\ timeline' = addTimeline(timeline, iteration, "APPLY_FAILED")
          /\ Report(finalStatus, timeline', allFixes', totalCommits,
                    totalFailures)
          /\ trace' = trace
     ELSE /\ timeline' = timeline
          /\ trace' = Append(trace, <<iteration, "commitAndPush">>)
          /\ pc' = "ensureBranch"
          /\ results' = results
  /\ UNCHANGED <<RETRY_LIMIT, arg, ret, chain, pushed, gitLog, tmpDir, resultsFile,
                 repoDir, finalStatus, iteration, totalCommits, totalFailures,
                 commitCount, polls, clients>>

\* applyFixes throws at a null element: the proposals before it have been
\* processed, their results are dropped with the rejected call, and the
\* catch block of Orchestrator.run runs (part_010:152-163)
ApplyFixesThrows ==
  /\ pc = "applyFixes"
  /\ NullIndex(fixes) > 0
  /\ LET before == SubSeq(fixes, 1, NullIndex(fixes) - 1) IN
       /\ patched' = patched + FixedCount(applyFixes(before))
       /\ broadcast(Repeat(Ev("fix_applied"), FixAppliedEvents(before)))
  /\ fixes' = <<>>
  /\ timeline' = addTimeline(timeline, iteration, "ERROR")
  /\ run' = appendLog(run, <<"error">>)
  /\ Report(finalStatus, timeline', allFixes, totalCommits, totalFailures)
  /\ UNCHANGED <<RETRY_LIMIT, arg, ret, chain, pushed, gitLog, tmpDir, resultsFile,
                 repoDir, finalStatus, iteration, allFixes, totalCommits,
                 totalFailures, appliedFixes, commitCount, polls, clients,
                 trace>>

\* ensureBranch: the checkout returns; commitFixes up to git.addConfig
EnsureBranch ==
  /\ pc = "ensureBranch"
  /\ broadcast(<<Ev("branch_ready")>>)
  /\ pc' = "commitFixes"
  /\ UNCHANGED <<RETRY_LIMIT, arg, ret, chain, patched, pushed, gitLog, run, tmpDir,
                 resultsFile, repoDir, finalStatus, iteration, timeline,
                 allFixes, totalCommits, totalFailures, fixes, appliedFixes,
                 commitCount, polls, results, clients, trace>>

\* the first words of every commit message (committer.js:80)
Prefix == "[AI-AGENT]"

\* Object.entries(byFile) of commitFixes: the files of the fixes of ap whose
\* status is Fixed, each once, in the order of their first such fix
byFile(ap) ==
  LET first == {k \in 1..Len(ap) :
                  /\ ap[k].status = "Fixed"
                  /\ \A j \in 1..(k - 1) :
                       ap[j].status = "Fixed" => ap[j].file # ap[k].file}
  IN [n \in 1..Cardinality(first) |->
        ap[CHOOSE k \in first :
             Cardinality({j \in first : j <= k}) = n].file]

\* the commits that the loop of commitFixes creates in iteration i when git
\* add and git commit succeed for the files of committed only
created(ap, committed, i) ==
  LET ok(file) == file \in committed
      done == SelectSeq(byFile(ap), ok)
  IN [n \in 1..Len(done) |->
        [iteration |-> i, file |-> done[n], message |-> <<Prefix, "Fix">>]]

\* commitFixes with commitCount++ ahead of git commit
CommitFixes_CountsAttempts(committed) ==
  /\ pc = "commitFixes"
  /\ committed \subseteq FixedFiles(appliedFixes)
  /\ gitLog' = gitLog \o created(appliedFixes, committed, iteration)
  /\ commitCount' = Len(byFile(appliedFixes))
  /\ run' = appendLog(run, <<"commits_done">>)
  /\ IF commitCount' > 0
     THEN /\ broadcast(Repeat(Ev("committed"), Cardinality(committed)))
          /\ trace' = Append(trace, <<iteration, "pushBranch">>)
          /\ pc' = "pushBranch"
     ELSE /\ broadcast(<<Ev("tests_start")>>)
          /\ trace' = Append(trace, <<iteration, "runTests">>)
          /\ pc' = "retest"
  /\ appliedFixes' = <<>>
  /\ UNCHANGED <<RETRY_LIMIT, arg, ret, chain, patched, pushed, tmpDir,
                 resultsFile, repoDir, finalStatus, iteration, timeline,
                 allFixes, totalCommits, totalFailures, fixes, polls, results,
                 clients>>

\* commitFixes returns: one commit for each file of committed, the files
\* whose git add and git commit did not fail.  commitAndPush then pushes, or
\* returns 0 (part_010:121-124 and runTests up to runInDocker).
CommitFixes(committed) ==
  /\ pc = "commitFixes"
  /\ committed \subseteq FixedFiles(appliedFixes)
  /\ gitLog' = gitLog \o created(appliedFixes, committed, iteration)
  /\ commitCount' = Cardinality(committed)
  /\ run' = appendLog(run, <<"commits_done">>)
  /\ IF commitCount' > 0
     THEN /\ broadcast(Repeat(Ev("committed"), commitCount'))
          /\ trace' = Append(trace, <<iteration, "pushBranch">>)
          /\ pc' = "pushBranch"
     ELSE /\ broadcast(<<Ev("tests_start")>>)
          /\ trace' = Append(trace, <<iteration, "runTests">>)
          /\ pc' = "retest"
  /\ appliedFixes' = <<>>
  /\ UNCHANGED <<RETRY_LIMIT, arg, ret, chain, patched, pushed, tmpDir,
                 resultsFile, repoDir, finalStatus, iteration, timeline,
                 allFixes, totalCommits, totalFailures, fixes, polls, results,
                 clients>>

\* pushBranch: git push returns; part_010:121-124 and runTests up to
\* runInDocker
PushBranch ==
  /\ pc = "pushBranch"
  /\ totalCommits' = totalCommits + commitCount
  /\ pushed' = pushed + commitCount
  /\ commitCount' = 0
  /\ broadcast(<<Ev("pushed"), Ev("tests_start")>>)
  /\ trace' = Append(trace, <<iteration, "runTests">>)
  /\ pc' = "retest"
  /\ UNCHANGED <<RETRY_LIMIT, arg, ret, chain, patched, gitLog, run, tmpDir,
                 resultsFile, repoDir, finalStatus, iteration, timeline,
                 allFixes, totalFailures, fixes, appliedFixes, polls, results,
                 clients>>

\* Orchestrator.run without totalFailures++ after a failed re-test
Retest_NoFailureCount(passed) ==
  /\ pc = "retest"
  /\ run' = appendLog(run, <<"tests_done">>)
  /\ IF passed
     THEN /\ timeline' = addTimeline(timeline, iteration, "PASSED")
          /\ finalStatus' = "PASSED"
          /\ broadcast(<<Ev("tests_done")>>)
          /\ Report("PASSED", timeline', allFixes, totalCommits, totalFailures)
          /\ UNCHANGED <<totalFailures, trace>>
     ELSE /\ totalFailures' = totalFailures
          /\ timeline' = addTimeline(timeline, iteration, "FAILED")
          /\ finalStatus' = finalStatus
          /\ broadcast(<<Ev("tests_done"), Ev("ci_trigger_start")>>)
          /\ trace' = Append(trace, <<iteration, "monitorCI">>)
          /\ pc' = "triggerWorkflow"
          /\ results' = results
  /\ UNCHANGED <<RETRY_LIMIT, arg, ret, chain, patched, pushed, gitLog, tmpDir,
                 resultsFile, repoDir, iteration, allFixes, totalCommits,
                 fixes, appliedFixes, commitCount, polls, clients>>

\* the re-test returns: part_010:126-140 and triggerWorkflow up to
\* listRepoWorkflows
Retest(passed) ==
  /\ pc = "retest"
  /\ run' = appendLog(run, <<"tests_done">>)
  /\ IF passed
     THEN /\ timeline' = addTimeline(timeline, iteration, "PASSED")
          /\ finalStatus' = "PASSED"
          /\ broadcast(<<Ev("tests_done")>>)
          /\ Report("PASSED", timeline', allFixes, totalCommits, totalFailures)
          /\ UNCHANGED <<totalFailures, trace>>
     ELSE /\ totalFailures' = totalFailures + 1
          /\ timeline' = addTimeline(timeline, iteration, "FAILED")
          /\ finalStatus' = finalStatus
          /\ broadcast(<<Ev("tests_done"), Ev("ci_trigger_start")>>)
          /\ trace' = Append(trace, <<iteration, "monitorCI">>)
          /\ pc' = "triggerWorkflow"
          /\ results' = results
  /\ UNCHANGED <<RETRY_LIMIT, arg, ret, chain, patched, pushed, gitLog, tmpDir,
                 resultsFile, repoDir, iteration, allFixes, totalCommits,
                 fixes, appliedFixes, commitCount, polls, clients>>

\* monitorCI that polls for a workflow run although none was triggered
TriggerWorkflow_PollsAnyway(triggered) ==
  /\ pc = "triggerWorkflow"
  /\ broadcast(IF triggered THEN <<Ev("ci_triggered"), Ev("ci_poll_start")>>
               ELSE <<Ev("ci_poll_start")>>)
  /\ pc' = "pollWorkflowStatus"
  /\ trace' = IF triggered
              THEN trace \o <<<<iteration, "createWorkflowDispatch">>,
                              <<iteration, "pollWorkflowStatus">>>>
              ELSE trace \o <<<<iteration, "no_ci">>,
                              <<iteration, "pollWorkflowStatus">>>>
  /\ UNCHANGED <<RETRY_LIMIT, arg, ret, chain, patched, pushed, gitLog, run, tmpDir,
                 resultsFile, repoDir, finalStatus, timeline, allFixes,
                 totalCommits, totalFailures, fixes, appliedFixes,
                 commitCount, polls, clients, iteration, results>>

\* triggerWorkflow returns.  triggered = FALSE: no workflow, or the listing
\* failed; monitorCI returns passed: null and the loop goes on.
\* triggered = TRUE: pollWorkflowStatus up to its first sleep.
TriggerWorkflow(triggered) ==
  /\ pc = "triggerWorkflow"
  /\ IF triggered
     THEN /\ broadcast(<<Ev("ci_triggered"), Ev("ci_poll_start")>>)
          /\ pc' = "pollWorkflowStatus"
          /\ trace' = trace \o <<<<iteration, "createWorkflowDispatch">>,
                                  <<iteration, "pollWorkflowStatus">>>>
          /\ UNCHANGED <<iteration, results>>
     ELSE LoopHead(iteration + 1, <<>>, timeline, totalCommits, totalFailures,
                   trace \o <<<<iteration, "no_ci">>,
                              <<iteration, "ciNotPassed">>>>)
  /\ UNCHANGED <<RETRY_LIMIT, arg, ret, chain, patched, pushed, gitLog, run, tmpDir,
                 resultsFile, repoDir, finalStatus, timeline, allFixes,
                 totalCommits, totalFailures, fixes, appliedFixes,
                 commitCount, polls, clients>>

\* the workflow runs that listWorkflowRunsForRepo can show as the most recent
\* completed run on the branch during iteration i, each named by the
\* iteration whose push and dispatch created it: the run of iteration i, the
\* run of an earlier iteration that triggered one, and, as 0, a run of the
\* branch that is older than this pipeline run (the branch name depends on
\* the team and leader names only, and dispatch failures are swallowed)
Origins(i, tr) ==
  {0, i} \cup {j \in 1..(i - 1) :
                 \E k \in 1..Len(tr) : tr[k] = <<j, "createWorkflowDispatch">>}

\* Orchestrator.run taking any completed workflow run as a pass
PollWorkflowStatus_AnyConclusion(seen) ==
  /\ pc = "pollWorkflowStatus"
  /\ polls < MaxPolls
  /\ polls' = IF seen \in {"success", "failure"} THEN 0 ELSE polls + 1
  /\ IF seen \in {"error", "none"}
     THEN /\ broadcast(<<>>)
          /\ UNCHANGED <<pc, run, finalStatus, timeline, iteration, trace,
                         results>>
     ELSE IF seen = "in_progress"
     THEN /\ broadcast(<<Ev("ci_status")>>)
          /\ UNCHANGED <<pc, run, finalStatus, timeline, iteration, trace,
                         results>>
     ELSE /\ run' = appendLog(run, <<"ci_done">>)
          /\ finalStatus' = "PASSED"
          /\ timeline' = addTimeline(timeline, iteration, "CI_PASSED")
          /\ broadcast(<<Ev("ci_status")>>)
          /\ Report("PASSED", timeline', allFixes, totalCommits,
                    totalFailures)
          /\ \E origin \in Origins(iteration, trace) :
               trace' = trace \o
                  <<IF seen = "success"
                    THEN <<iteration, "completed", seen, origin>>
                    ELSE <<iteration, "completed", seen>>,
                    <<iteration, IF seen = "success" THEN "ciPassed"
                                 ELSE "ciNotPassed">>>>
          /\ UNCHANGED iteration
  /\ UNCHANGED <<RETRY_LIMIT, arg, ret, chain, patched, pushed, gitLog, tmpDir,
                 resultsFile, repoDir, allFixes, totalCommits, totalFailures,
                 fixes, appliedFixes, commitCount, clients>>

\* pollWorkflowStatus: one pass of its loop.  seen is what the listing
\* showed: "error", "none", "in_progress", "success" or "failure" (the
\* conclusion of a completed run).  Then part_010:141-146.
PollWorkflowStatus(seen) ==
  /\ pc = "pollWorkflowStatus"
  /\ polls < MaxPolls
  /\ polls' = IF seen \in {"success", "failure"} THEN 0 ELSE polls + 1
  /\ IF seen \in {"error", "none"}
     THEN /\ broadcast(<<>>)
          /\ UNCHANGED <<pc, run, finalStatus, timeline, iteration, trace,
                         results>>
     ELSE IF seen = "in_progress"
     THEN /\ broadcast(<<Ev("ci_status")>>)
          /\ UNCHANGED <<pc, run, finalStatus, timeline, iteration, trace,
                         results>>
     ELSE /\ run' = appendLog(run, <<"ci_done">>)
          /\ IF seen = "success"
             THEN /\ finalStatus' = "PASSED"
                  /\ timeline' = addTimeline(timeline, iteration, "CI_PASSED")
                  /\ broadcast(<<Ev("ci_status")>>)
                  /\ Report("PASSED", timeline', allFixes, totalCommits,
                            totalFailures)
                  /\ \E origin \in Origins(iteration, trace) :
                       trace' = trace \o
                          <<<<iteration, "completed", seen, origin>>,
                            <<iteration, "ciPassed">>>>
                  /\ UNCHANGED iteration
             ELSE /\ UNCHANGED <<finalStatus, timeline>>
                  /\ LoopHead(iteration + 1, <<Ev("ci_status")>>, timeline,
                              totalCommits, totalFailures,
                              trace \o <<<<iteration, "completed", seen>>,
                                         <<iteration, "ciNotPassed">>>>)
  /\ UNCHANGED <<RETRY_LIMIT, arg, ret, chain, patched, pushed, gitLog, tmpDir,
                 resultsFile, repoDir, allFixes, totalCommits, totalFailures,
                 fixes, appliedFixes, commitCount, clients>>

\* pollWorkflowStatus: the timeout has elapsed at the loop test (at least
\* one poll fits into it); it returns passed: false and the loop goes on
PollTimeout ==
  /\ pc = "pollWorkflowStatus"
  /\ polls >= 1
  /\ polls' = 0
  /\ LoopHead(iteration + 1, <<>>, timeline, totalCommits, totalFailures,
              trace \o <<<<iteration, "timeout">>,
                         <<iteration, "ciNotPassed">>>>)
  /\ UNCHANGED <<RETRY_LIMIT, arg, ret, chain, patched, pushed, gitLog, run, tmpDir,
                 resultsFile, repoDir, finalStatus, timeline, allFixes,
                 totalCommits, totalFailures, fixes, appliedFixes,
                 commitCount, clients>>

\* the awaits inside the try block of Orchestrator.run whose failure reaches
\* its catch block
ThrowPoints ==
  {"ensureDir", "clone", "detectProject", "discoverTests", "analyzeTests",
   "gatherContext", "ensureBranch", "commitFixes",
   "pushBranch", "retest"}

\* a catch block that records no timeline entry
AgentThrows_NoTimelineEntry ==
  /\ pc \in ThrowPoints
  /\ timeline' = timeline
  /\ run' = appendLog(run, <<"error">>)
  /\ broadcast(<<>>)
  /\ trace' = Append(trace, <<iteration, "throws">>)
  /\ Report(finalStatus, timeline', allFixes, totalCommits, totalFailures)
  /\ fixes' = <<>>
  /\ appliedFixes' = <<>>
  /\ commitCount' = 0
  /\ UNCHANGED <<RETRY_LIMIT, arg, ret, chain, patched, pushed, gitLog, tmpDir,
                 resultsFile, repoDir, finalStatus, iteration, allFixes,
                 totalCommits, totalFailures, polls, clients>>

\* an agent step throws: the catch block, part_010:152-163
AgentThrows ==
  /\ pc \in ThrowPoints
  /\ timeline' = addTimeline(timeline, iteration, "ERROR")
  /\ run' = appendLog(run, <<"error">>)
  /\ broadcast(<<>>)
  /\ trace' = Append(trace, <<iteration, "throws">>)
  /\ Report(finalStatus, timeline', allFixes, totalCommits, totalFailures)
  /\ fixes' = <<>>
  /\ appliedFixes' = <<>>
  /\ commitCount' = 0
  /\ UNCHANGED <<RETRY_LIMIT, arg, ret, chain, patched, pushed, gitLog, tmpDir,
                 resultsFile, repoDir, finalStatus, iteration, allFixes,
                 totalCommits, totalFailures, polls, clients>>

\* saveResults returns: part_010:166-180, up to fs.remove
SaveResults ==
  /\ pc = "saveResults"
  /\ resultsFile' = ToJson(results)
  /\ run' = updateRun(run, IF finalStatus = "PASSED" THEN "completed"
                            ELSE "failed", results)
  /\ broadcast(<<[event |-> "pipeline_done", data |-> ToJson(results)]>>)
  /\ pc' = IF repoDir THEN "cleanup" ELSE "done"
  /\ UNCHANGED <<RETRY_LIMIT, arg, ret, chain, patched, pushed, gitLog, tmpDir,
                 repoDir, finalStatus, iteration, timeline, allFixes,
                 totalCommits, totalFailures, fixes, appliedFixes,
                 commitCount, polls, results, clients, trace>>

\* saveResults throws and nothing handles the rejection of run()
SaveResultsThrows_NoHandler ==
  /\ pc = "saveResults"
  /\ pc' = "done"
  /\ UNCHANGED <<RETRY_LIMIT, arg, ret, chain, patched, pushed, gitLog, run, tmpDir,
                 resultsFile, repoDir, finalStatus, iteration, timeline,
                 allFixes, totalCommits, totalFailures, fixes, appliedFixes,
                 commitCount, polls, results, emitted, clients, received,
                 trace>>

\* saveResults throws: run() rejects and the handler of POST /run-agent
\* (agent.js:61-68) runs
SaveResultsThrows ==
  /\ pc = "saveResults"
  /\ run' = updateRun(run, "error", [error |-> TRUE])
  /\ pc' = "done"
  /\ UNCHANGED <<RETRY_LIMIT, arg, ret, chain, patched, pushed, gitLog, tmpDir,
                 resultsFile, repoDir, finalStatus, iteration, timeline,
                 allFixes, totalCommits, totalFailures, fixes, appliedFixes,
                 commitCount, polls, results, emitted, clients, received,
                 trace>>

\* the cleanup without its try/catch: a failure of fs.remove rejects run()
\* and the handler of POST /run-agent runs
Cleanup_Uncaught(removed) ==
  /\ pc = "cleanup"
  /\ tmpDir' = IF removed THEN FALSE ELSE tmpDir
  /\ run' = IF removed THEN run ELSE updateRun(run, "error", [error |-> TRUE])
  /\ pc' = "done"
  /\ UNCHANGED <<RETRY_LIMIT, arg, ret, chain, patched, pushed, gitLog, resultsFile,
                 repoDir, finalStatus, iteration, timeline, allFixes,
                 totalCommits, totalFailures, fixes, appliedFixes,
                 commitCount, polls, results, emitted, clients, received,
                 trace>>

\* fs.remove(repoDir) returns (removed) or throws; a failure is only logged
Cleanup(removed) ==
  /\ pc = "cleanup"
  /\ tmpDir' = IF removed THEN FALSE ELSE tmpDir
  /\ pc' = "done"
  /\ UNCHANGED <<RETRY_LIMIT, arg, ret, chain, patched, pushed, gitLog, run,
                 resultsFile, repoDir, finalStatus, iteration, timeline,
                 allFixes, totalCommits, totalFailures, fixes, appliedFixes,
                 commitCount, polls, results, emitted, clients, received,
                 trace>>

\* ---- socket.js: the connections -----------------------------------------------

orchVars == <<RETRY_LIMIT, arg, ret, chain, patched, pushed, gitLog, pc, run,
                        tmpDir, resultsFile, repoDir, finalStatus, iteration,
                        timeline, allFixes, totalCommits, totalFailures,
                        fixes, appliedFixes, commitCount, polls, results,
                        emitted, trace>>

\* wss.on("connection")
Connect(c) ==
  /\ clients[c] = "none"
  /\ clients' = [clients EXCEPT ![c] = "open"]
  /\ received' = [received EXCEPT ![c] = <<>>]
  /\ UNCHANGED orchVars

\* the peer closes or the socket fails: readyState leaves OPEN, the close or
\* error handler has not run yet
Closing(c) ==
  /\ clients[c] = "open"
  /\ clients' = [clients EXCEPT ![c] = "closing"]
  /\ received' = [received EXCEPT ![c] = <<>>]
  /\ UNCHANGED orchVars

\* ws.on("close") / ws.on("error"): clients.delete(ws)
OnClose(c) ==
  /\ clients[c] = "closing"
  /\ clients' = [clients EXCEPT ![c] = "none"]
  /\ UNCHANGED <<received, orchVars>>

\* the socket of c stops delivering (the peer vanished) while its readyState
\* is still OPEN: send is called for it, what it is handed is lost
SocketFails(c) ==
  /\ clients[c] = "open"
  /\ clients' = [clients EXCEPT ![c] = "broken"]
  /\ received' = [received EXCEPT ![c] = <<>>]
  /\ UNCHANGED orchVars

\* ws.on("error") of a socket that failed: clients.delete(ws)
OnError(c) ==
  /\ clients[c] = "broken"
  /\ clients' = [clients EXCEPT ![c] = "none"]
  /\ UNCHANGED <<received, orchVars>>

\* ---- the specification ----------------------------------------------------------

RunStep ==
  \/ Submit
  \/ EnsureDir
  \/ Clone
  \/ DetectProject
  \/ DiscoverTests
  \/ \E passed \in BOOLEAN : AnalyzeTests(passed)
  \/ GatherContext
  \/ \E outcome \in {"array", "noArray", "failed"},
        fx \in ProposalLists \cup PlaceholderLists : InvokeLLM(outcome, fx)
  \/ ApplyFixes
  \/ ApplyFixesThrows
  \/ EnsureBranch
  \/ \E committed \in SUBSET Files : CommitFixes(committed)
  \/ PushBranch
  \/ \E passed \in BOOLEAN : Retest(passed)
  \/ \E triggered \in BOOLEAN : TriggerWorkflow(triggered)
  \/ \E seen \in {"error", "none", "in_progress", "success", "failure"} :
        PollWorkflowStatus(seen)
  \/ PollTimeout
  \/ AgentThrows
  \/ SaveResults
  \/ SaveResultsThrows
  \/ \E removed \in BOOLEAN : Cleanup(removed)

ClientStep == \E c \in Clients : Connect(c) \/ Closing(c) \/ OnClose(c)

\* the pipeline with no subscriber
Next == RunStep

Spec == Init /\ [][Next]_vars

\* the pipeline and the subscribers
InitBus == Init /\ RETRY_LIMIT \in {1, 2}

NextBus == RunStep \/ ClientStep

BusSpec == InitBus /\ [][NextBus]_vars

\* the pipeline and the subscribers, every pending step of the run
\* eventually returning or throwing
InitLive == Init /\ RETRY_LIMIT = 1

LiveSpec == InitLive /\ [][NextBus]_vars /\ WF_vars(RunStep)

\* two subscribers and a run of one iteration in which no agent step throws
Subscribers == {"ws1", "ws2"}

InitFanout ==
  /\ RETRY_LIMIT = 1
  /\ QuietRun
  /\ clients = [c \in Subscribers |-> "none"]
  /\ received = [c \in Subscribers |-> <<>>]
  /\ chain = NoChain
  /\ arg = NoArg
  /\ ret = NoRet

NextFanout ==
  \/ Submit
  \/ EnsureDir
  \/ Clone
  \/ DetectProject
  \/ DiscoverTests
  \/ \E passed \in BOOLEAN : AnalyzeTests(passed)
  \/ GatherContext
  \/ InvokeLLM("array", <<P("a.js", TRUE, "substring")>>)
  \/ ApplyFixes
  \/ EnsureBranch
  \/ CommitFixes(FixedFiles(appliedFixes))
  \/ PushBranch
  \/ \E passed \in BOOLEAN : Retest(passed)
  \/ \E triggered \in BOOLEAN : TriggerWorkflow(triggered)
  \/ \E seen \in {"success", "failure"} : PollWorkflowStatus(seen)
  \/ SaveResults
  \/ \E removed \in BOOLEAN : Cleanup(removed)
  \/ \E c \in Subscribers :
        Connect(c) \/ Closing(c) \/ OnClose(c) \/ SocketFails(c) \/ OnError(c)

FanoutSpec == InitFanout /\ [][NextFanout]_vars

\* the runs in which every step returns, every iteration gets a proposal that
\* is applied and committed, every test run fails and CI never reports a pass
ExhaustProposals == { <<P("a.js", TRUE, "substring")>> }

InitExhaust ==
  /\ RETRY_LIMIT \in 1..MaxBudget
  /\ Quiet
  /\ arg = NoArg
  /\ ret = NoRet

NextExhaust ==
  \/ Submit
  \/ EnsureDir
  \/ Clone
  \/ DetectProject
  \/ DiscoverTests
  \/ AnalyzeTests(FALSE)
  \/ GatherContext
  \/ \E fx \in ExhaustProposals : InvokeLLM("array", fx)
  \/ ApplyFixes
  \/ EnsureBranch
  \/ CommitFixes(FixedFiles(appliedFixes))
  \/ PushBranch
  \/ Retest(FALSE)
  \/ \E triggered \in BOOLEAN : TriggerWorkflow(triggered)
  \/ \E seen \in {"in_progress", "failure"} : PollWorkflowStatus(seen)
  \/ PollTimeout
  \/ SaveResults
  \/ \E removed \in BOOLEAN : Cleanup(removed)

ExhaustSpec == InitExhaust /\ [][NextExhaust]_vars

\* ---- computeScore on its own -------------------------------------------------------

\* every variable but arg, ret and chain
progVars == <<RETRY_LIMIT, pc, run, tmpDir, resultsFile, repoDir, finalStatus,
              iteration, timeline, allFixes, totalCommits, totalFailures,
              fixes, appliedFixes, commitCount, polls, results, emitted,
              clients, received, trace, patched, pushed, gitLog>>

\* the values buildResults can pass: an elapsed time, which a clock set back
\* makes negative, and three counts, on both sides of each threshold
ScoreTimes      == {0 - 1000, 0, 200000, 299999, 300000, 400000}
ScoreCommits    == {0, 1, 19, 20, 21, 25, 80}
ScoreFixes      == {0, 1, 10, 19, 20, 21, 40}
ScoreIterations == {0, 1, 3, 4, 5, 30}

InitScore ==
  /\ RETRY_LIMIT = 1
  /\ Quiet
  /\ arg \in [fn : {"computeScore"}, totalTime : ScoreTimes,
               commitCount : ScoreCommits, fixCount : ScoreFixes,
               iterationCount : ScoreIterations]
  /\ ret = NoRet

\* the call computeScore({ totalTime, commitCount, fixCount, iterationCount })
CallComputeScore ==
  /\ arg.fn = "computeScore"
  /\ ret = NoRet
  /\ ret' = computeScore(arg.totalTime, arg.commitCount, arg.fixCount,
                         arg.iterationCount)
  /\ UNCHANGED <<arg, chain, progVars>>

NextScore == CallComputeScore

ScoreSpec == InitScore /\ [][NextScore]_vars

\* ---- generateBranchName on its own ----------------------------------------------

\* the characters of a name: a lower-case letter, an upper-case letter, a
\* digit, white space, and a character that is none of these
NameChars == {"a", "B", "7", " ", "!"}

\* the names POST /run-agent lets through: non-empty strings
Names == UNION {[1..n -> NameChars] : n \in 1..MaxNameLen}

RECURSIVE trimStart(_)
trimStart(str) ==
  IF str # <<>> /\ Head(str) = " " THEN trimStart(Tail(str)) ELSE str

RECURSIVE trimEnd(_)
trimEnd(str) ==
  IF str # <<>> /\ str[Len(str)] = " "
  THEN trimEnd(SubSeq(str, 1, Len(str) - 1))
  ELSE str

\* String.prototype.trim
trim(str) == trimEnd(trimStart(str))

\* String.prototype.toUpperCase
toUpperCase(str) == [k \in 1..Len(str) |-> IF str[k] = "a" THEN "A" ELSE str[k]]

IsKept(c) == c \in {"A", "B", "7", " "}

\* .replace(/[^A-Z0-9\s]/g, "")
stripOthers(str) == SelectSeq(str, IsKept)

RECURSIVE underscoreSpaces(_)
\* .replace(/\s+/g, "_"): every maximal run of white space becomes one "_"
underscoreSpaces(str) ==
  IF str = <<>> THEN <<>>
  ELSE IF Head(str) = " "
       THEN <<"_">> \o underscoreSpaces(trimStart(Tail(str)))
       ELSE <<Head(str)>> \o underscoreSpaces(Tail(str))

\* helpers.js sanitize
sanitize(str) == underscoreSpaces(stripOthers(toUpperCase(trim(str))))

\* the literal "_AI_Fix"
Suffix == <<"_", "A", "I", "_", "F", "i", "x">>

\* helpers.js generateBranchName
generateBranchName(teamName, leaderName) ==
  sanitize(teamName) \o <<"_">> \o sanitize(leaderName) \o Suffix

InitBranch ==
  /\ RETRY_LIMIT = 1
  /\ Quiet
  /\ arg \in [fn : {"generateBranchName"}, teamName : Names,
               leaderName : Names]
  /\ ret = NoRet

\* the call generateBranchName(teamName, leaderName)
CallGenerateBranchName ==
  /\ arg.fn = "generateBranchName"
  /\ ret = NoRet
  /\ ret' = [branch |-> generateBranchName(arg.teamName, arg.leaderName)]
  /\ UNCHANGED <<arg, chain, progVars>>

NextBranch == CallGenerateBranchName

BranchSpec == InitBranch /\ [][NextBranch]_vars

\* ---- applyFixes on the bytes of a file ------------------------------------------

\* the bytes of a file: two ASCII characters, the line feed, and E9, a byte
\* that is no UTF-8 sequence on its own (e with acute accent in Latin-1)
PatchBytes == {"x", "y", "nl", "E9"}

Contents == UNION {[1..n -> PatchBytes] : n \in 0..MaxFileLen}

RECURSIVE Flatten(_)
Flatten(ss) == IF ss = <<>> THEN <<>> ELSE Head(ss) \o Flatten(Tail(ss))

\* fs.readFile(filePath, "utf-8"): a byte that is not valid UTF-8 is decoded
\* as U+FFFD
utf8Decode(bytes) ==
  [k \in 1..Len(bytes) |-> IF bytes[k] = "E9" THEN "FFFD" ELSE bytes[k]]

\* fs.writeFile(filePath, content, "utf-8"): U+FFFD is written as EF BF BD
utf8Encode(str) ==
  Flatten([k \in 1..Len(str) |->
             IF str[k] = "FFFD" THEN <<"EF", "BF", "BD">> ELSE <<str[k]>>])

\* the offsets at which pat occurs in str
Occurrences(str, pat) ==
  {i \in 0..(Len(str) - Len(pat)) : SubSeq(str, i + 1, i + Len(pat)) = pat}

\* content.includes(fix.originalCode)
includes(str, pat) == Occurrences(str, pat) # {}

\* content.replace(fix.originalCode, fix.fixedCode): the first occurrence
replaceFirst(str, pat, by) ==
  LET i == CHOOSE i \in Occurrences(str, pat) :
             \A j \in Occurrences(str, pat) : i <= j
  IN SubSeq(str, 1, i) \o by \o SubSeq(str, i + Len(pat) + 1, Len(str))

RECURSIVE split(_)
\* content.split("\n")
split(str) ==
  IF includes(str, <<"nl">>)
  THEN LET i == CHOOSE i \in Occurrences(str, <<"nl">>) :
                  \A j \in Occurrences(str, <<"nl">>) : i <= j
       IN <<SubSeq(str, 1, i)>> \o split(SubSeq(str, i + 2, Len(str)))
  ELSE <<str>>

RECURSIVE join(_)
\* lines.join("\n")
join(lines) ==
  IF Len(lines) = 1 THEN lines[1]
  ELSE lines[1] \o <<"nl">> \o join(Tail(lines))

\* the proposals for a.js, which exists, and gone.js, which does not;
\* lineNumber 0 stands for a missing lineNumber, and the LLM may answer
\* with a negative one
PatchProposals ==
  [file : {"a.js", "gone.js"}, originalCode : {<<>>, <<"x">>, <<"x", "y">>},
   fixedCode : {<<>>, <<"z">>}, lineNumber : {0 - 1, 0, 1, 2}]

PatchLists == UNION {[1..n -> PatchProposals] : n \in 1..MaxPatchList}

\* what the file system does for one proposal: "ok"; "fails", readFile or the
\* open of writeFile throws and the file is as it was; "torn", writeFile
\* throws after it truncated the file
IoOutcomes == {"ok", "fails", "torn"}

\* fs.writeFile under outcome io: the bytes left on disk
written(old, str, io) ==
  IF io = "ok" THEN utf8Encode(str) ELSE IF io = "torn" THEN <<>> ELSE old

\* lines[n - 1] = fixedCode: for n < 1 this sets a property of the array
\* that is no element, and join leaves it out
setLine(lines, n, fixedCode) ==
  IF n >= 1 THEN [lines EXCEPT ![n] = fixedCode] ELSE lines

\* one pass of the loop of applyFixes (part_011:370-419) over the bytes of
\* a.js: the bytes it leaves, the status it pushes and its reason
patchFile(bytes, fix, io) ==
  LET content == utf8Decode(bytes)
      lines   == split(content)
      done(str) ==
        [after  |-> written(bytes, str, io),
         status |-> IF io = "ok" THEN "Fixed" ELSE "Failed",
         reason |-> IF io = "ok" THEN "" ELSE "err.message"]
  IN IF fix.originalCode = <<>> \/ fix.fixedCode = <<>>
     THEN [after |-> bytes, status |-> "Skipped", reason |-> ""]
     ELSE IF fix.file # "a.js"
     THEN [after |-> bytes, status |-> "Failed", reason |-> "File not found"]
     ELSE IF includes(content, fix.originalCode)
     THEN done(replaceFirst(content, fix.originalCode, fix.fixedCode))
     ELSE IF fix.lineNumber # 0 /\ fix.lineNumber <= Len(lines)
     THEN done(join(setLine(lines, fix.lineNumber, fix.fixedCode)))
     ELSE [after |-> bytes, status |-> "Failed",
           reason |-> "Original code not found"]

RECURSIVE patchAll(_, _, _)
\* applyFixes: the passes of its loop, in input order, as
\* [fix, io, before, after, status, reason]
patchAll(bytes, fxs, ios) ==
  IF fxs = <<>> THEN <<>>
  ELSE LET r == patchFile(bytes, Head(fxs), Head(ios))
       IN <<[fix |-> Head(fxs), io |-> Head(ios), before |-> bytes,
             after |-> r.after, status |-> r.status, reason |-> r.reason]>>
          \o patchAll(r.after, Tail(fxs), Tail(ios))

InitPatch ==
  /\ RETRY_LIMIT = 1
  /\ Quiet
  /\ arg \in [fn : {"applyFixes"}, content : Contents, fixes : PatchLists]
  /\ ret = NoRet

\* the call applyFixes(fixes, repoDir)
CallApplyFixes ==
  /\ arg.fn = "applyFixes"
  /\ ret = NoRet
  /\ \E ios \in [1..Len(arg.fixes) -> IoOutcomes] :
       ret' = [passes |-> patchAll(arg.content, arg.fixes, ios)]
  /\ UNCHANGED <<arg, chain, progVars>>

NextPatch == CallApplyFixes

PatchSpec == InitPatch /\ [][NextPatch]_vars

\* ---- parseErrorLog ---------------------------------------------------------------------

\* the message part of a log line; the last one is white space only
LogMessages == {"SyntaxError: eslint", "failed assert", "Error: boom",
                "FAIL suite", "error: boom", "  "}

NoLoc == [style |-> "none"]

\* the location part of a log line: path:line:col, or File "path", line N
\* (whose path may hold a colon)
LogLocations ==
  {NoLoc,
   [style |-> "js", file |-> <<"a">>, line |-> 1, col |-> 5],
   [style |-> "js", file |-> <<"a">>, line |-> 1, col |-> 9],
   [style |-> "py", file |-> <<"a", ":", "1">>, line |-> 1]}

LogLines == [msg : LogMessages, loc : LogLocations]

Logs == UNION {[1..n -> LogLines] : n \in 0..MaxLogLines}

\* the rules in their declared order, each with the messages its regular
\* expression matches (all of them ignore case)
PATTERNS ==
  << [type |-> "SYNTAX",      hits |-> {"SyntaxError: eslint"}],
     [type |-> "INDENTATION", hits |-> {}],
     [type |-> "TYPE_ERROR",  hits |-> {}],
     [type |-> "IMPORT",      hits |-> {}],
     [type |-> "LOGIC",       hits |-> {"failed assert"}],
     [type |-> "LINTING",     hits |-> {"SyntaxError: eslint"}],
     [type |-> "RUNTIME",     hits |-> {}] >>

classifyError(errorLine) ==
  LET hit == {k \in 1..Len(PATTERNS) : errorLine.msg \in PATTERNS[k].hits}
  IN IF hit = {} THEN "UNKNOWN"
     ELSE PATTERNS[CHOOSE k \in hit : \A m \in hit : k <= m].type

\* line.includes("Error"), line.includes("FAIL"): case-sensitive
includesError(line) == line.msg \in {"SyntaxError: eslint", "Error: boom"}

includesFAIL(line) == line.msg = "FAIL suite"

\* null for the path (a matched path is never empty) and for the line
\* number (a matched number is never negative)
NullFile == <<>>
NullLine == 0 - 1

\* the three formats all yield the path and the line number
extractLocation(errorLine) ==
  IF errorLine.loc = NoLoc
  THEN [file |-> NullFile, line |-> NullLine]
  ELSE [file |-> errorLine.loc.file, line |-> errorLine.loc.line]

\* l.trim() is the empty string
IsBlank(l) == l.msg = "  " /\ l.loc = NoLoc

\* `${file}:${lineNum}:${bugType}`
seenKey(file, lineNum, bugType) ==
  (IF file = NullFile THEN <<"null">> ELSE file) \o <<":">>
    \o (IF lineNum = NullLine THEN <<"null">> ELSE <<ToString(lineNum)>>)
    \o <<":", bugType>>

RECURSIVE scanNoSeen(_, _, _)
scanNoSeen(lines, errors, seen) ==
  IF lines = <<>> THEN errors
  ELSE LET line    == Head(lines)
           bugType == classifyError(line)
           at      == extractLocation(line)
           key     == seenKey(at.file, at.line, bugType)
       IN IF bugType = "UNKNOWN" /\ ~includesError(line) /\ ~includesFAIL(line)
          THEN scanNoSeen(Tail(lines), errors, seen)
          ELSE scanNoSeen(Tail(lines),
                    Append(errors, [bugType |-> bugType, file |-> at.file,
                                    lineNumber |-> at.line,
                                    rawMessage |-> line]),
                    seen \cup {key})

\* the loop of parseErrorLog over the non-blank lines
RECURSIVE scan(_, _, _)
scan(lines, errors, seen) ==
  IF lines = <<>> THEN errors
  ELSE LET line    == Head(lines)
           bugType == classifyError(line)
           at      == extractLocation(line)
           key     == seenKey(at.file, at.line, bugType)
       IN IF bugType = "UNKNOWN" /\ ~includesError(line) /\ ~includesFAIL(line)
          THEN scan(Tail(lines), errors, seen)
          ELSE IF key \in seen
          THEN scan(Tail(lines), errors, seen)
          ELSE scan(Tail(lines),
                    Append(errors, [bugType |-> bugType, file |-> at.file,
                                    lineNumber |-> at.line,
                                    rawMessage |-> line]),
                    seen \cup {key})

parseErrorLog_NoSeen(rawLog) ==
  scanNoSeen(SelectSeq(rawLog, LAMBDA l : ~IsBlank(l)), <<>>, {})

parseErrorLog(rawLog) ==
  scan(SelectSeq(rawLog, LAMBDA l : ~IsBlank(l)), <<>>, {})

InitParse ==
  /\ RETRY_LIMIT = 1
  /\ Quiet
  /\ arg \in [fn : {"parseErrorLog"}, rawLog : Logs]
  /\ ret = NoRet

\* the call parseErrorLog(errorOutput)
CallParseErrorLog ==
  /\ arg.fn = "parseErrorLog"
  /\ ret = NoRet
  /\ ret' = [errors |-> parseErrorLog(arg.rawLog)]
  /\ UNCHANGED <<arg, chain, progVars>>

NextParse == CallParseErrorLog

ParseSpec == InitParse /\ [][NextParse]_vars

\* ---- runInDocker ------------------------------------------------------------------------

\* docker.js:153-154
TimeoutMarker   == "TIMEOUT: Command execution exceeded time limit"
TimeoutExitCode == 124

\* what the environment does to one call of runInDocker: whether the daemon
\* answers, whether each Docker request succeeds, whether the command ends
\* before the timeout, and the exit status and stderr text it ends with
ExecEnvs ==
  [available : BOOLEAN,
   inspect : {"ok", "fails"}, pull : {"ok", "fails"},
   create : {"ok", "fails"}, attach : {"ok", "fails"},
   start : {"ok", "fails"},
   kill : {"ok", "fails"}, remove : {"ok", "fails"},
   runs : {"exits", "overruns"},
   statusCode : {0, 1, 2},
   errText : {"", "boom"}]

\* container tells what became of the container of the call: "none" was
\* created, or it was "removed", or it is "left" on the daemon
Threw(message) ==
  [threw |-> TRUE, message |-> message, started |-> FALSE,
   container |-> "none"]

Returned(exitCode, stderr, started, container) ==
  [threw |-> FALSE, exitCode |-> exitCode, stderr |-> stderr,
   started |-> started, container |-> container]

\* exec(cmd, {timeout, ...}, callback): when the timeout expires the child is
\* sent SIGTERM and the callback gets an error whose code is null; an exit
\* status other than 0 is the error's code
runNative(env) ==
  LET errorCode == IF env.runs = "overruns" THEN 0 ELSE env.statusCode
      isError   == env.runs = "overruns" \/ env.statusCode # 0
      exitCode  == IF isError THEN (IF errorCode # 0 THEN errorCode ELSE 1)
                   ELSE 0
  IN Returned(exitCode, env.errText, TRUE, "none")

\* the finally block of _runInDockerContainer: container.remove({force:
\* true}), whose failure is logged and swallowed
removeContainer(env) == IF env.remove = "ok" THEN "removed" ELSE "left"

\* _runInDockerContainer: pullImage and createContainer are awaited outside
\* the try block; a failure of attach or start is caught and returned; a
\* failure of kill or of remove is swallowed and changes no result
runInDockerContainer(env) ==
  IF env.inspect = "fails" /\ env.pull = "fails"
  THEN Threw("pull failed")
  ELSE IF env.create = "fails"
  THEN Threw("create failed")
  ELSE IF env.attach = "fails"
  THEN Returned(1, "attach failed", FALSE, removeContainer(env))
  ELSE IF env.start = "fails"
  THEN Returned(1, "start failed", FALSE, removeContainer(env))
  ELSE IF env.runs = "overruns"
  THEN Returned(TimeoutExitCode, TimeoutMarker, TRUE, removeContainer(env))
  ELSE Returned(env.statusCode, env.errText, TRUE, removeContainer(env))

runInDocker(env) ==
  IF env.available THEN runInDockerContainer(env) ELSE runNative(env)

InitExec ==
  /\ RETRY_LIMIT = 1
  /\ Quiet
  /\ arg \in [fn : {"runInDocker"}, env : ExecEnvs]
  /\ ret = NoRet

\* the call runInDocker({image, repoDir, cmd, runId, timeout})
CallRunInDocker ==
  /\ arg.fn = "runInDocker"
  /\ ret = NoRet
  /\ ret' = runInDocker(arg.env)
  /\ UNCHANGED <<arg, chain, progVars>>

NextExec == CallRunInDocker

ExecSpec == InitExec /\ [][NextExec]_vars

\* ---- _invokeWithFallback ------------------------------------------------------------

\* what one llm.invoke can do: respond, or throw an error whose message
\* names a rate limit ("429", "quota") or does not ("500"), or an error
\* without a message
LlmOutcomes == {"ok", "429", "quota", "500", "noMessage"}

\* err.message?.includes("429") || ...includes("quota") ||
\* ...includes("Too Many Requests")
is429(outcome) == outcome \in {"429", "quota"}

\* a backoff that does not grow
backoff_Flat(attempt) == 15

\* the delay before the next attempt, in seconds
backoff(attempt) == attempt * 15

\* the call _invokeWithFallback(messages) with FALLBACK_MODELS of n models
StartChain(n) ==
  [at |-> "invoke", models |-> n, model |-> 1, attempt |-> 1, calls |-> <<>>]

InitChain ==
  /\ RETRY_LIMIT = 1
  /\ QuietRun
  /\ clients = [c \in Clients |-> "none"]
  /\ received = [c \in Clients |-> <<>>]
  /\ chain \in {StartChain(n) : n \in 1..MaxModels}
  /\ arg = NoArg
  /\ ret = NoRet

\* llm.invoke returns or throws; then the catch block up to the next await
Invoke(outcome) ==
  /\ chain.at = "invoke"
  /\ LET limited == is429(outcome)
         retry   == limited /\ chain.attempt < 3
         delay   == IF retry THEN backoff(chain.attempt) ELSE 0
         calls   == Append(chain.calls,
                           [model |-> chain.model, attempt |-> chain.attempt,
                            outcome |-> outcome, delay |-> delay])
     IN IF outcome = "ok"
        THEN /\ chain' = [chain EXCEPT !.at = "returned", !.calls = calls]
             /\ ret' = [response |-> chain.model]
        ELSE IF retry
        THEN /\ chain' = [chain EXCEPT !.at = "sleep", !.calls = calls]
             /\ ret' = ret
        ELSE IF limited /\ chain.model < chain.models
        THEN /\ chain' = [chain EXCEPT !.model = @ + 1, !.attempt = 1,
                                       !.calls = calls]
             /\ ret' = ret
        ELSE /\ chain' = [chain EXCEPT !.at = "threw", !.calls = calls]
             /\ ret' = [error |-> IF limited THEN "exhausted" ELSE outcome]
  /\ UNCHANGED <<arg, progVars>>

\* the timer of the backoff fires
BackoffEnds ==
  /\ chain.at = "sleep"
  /\ chain' = [chain EXCEPT !.at = "invoke", !.attempt = @ + 1]
  /\ UNCHANGED <<arg, ret, progVars>>

NextChain == (\E outcome \in LlmOutcomes : Invoke(outcome)) \/ BackoffEnds

ChainSpec == InitChain /\ [][NextChain]_vars

\* ---- properties ---------------------------------------------------------------------

Last(q) == q[Len(q)]

IsSuffix(q, r) ==
  /\ Len(q) <= Len(r)
  /\ q = SubSeq(r, Len(r) - Len(q) + 1, Len(r))

\* the positions of the pipeline_done payloads in the event stream
DonePositions == {k \in 1..Len(emitted) : emitted[k].event = "pipeline_done"}

Terminal == run.status \in {"completed", "failed", "error"}

\* res.json(run.result) of GET /results/:runId
Served(r) == IF "finalStatus" \in DOMAIN r THEN ToJson(r) ELSE r

TraceSteps(i) == {trace[k][2] : k \in {j \in 1..Len(trace) : trace[j][1] = i}}

\* C1: in every reachable state the timeline holds at most RETRY_LIMIT + 1
\* entries.
C1_RetryBound == Len(timeline) <= RETRY_LIMIT + 1

\* C2: whenever pipeline_done has been emitted, tmp/{runId} has already been
\* removed.
C2_CleanupPrecedesDone == DonePositions # {} => ~tmpDir

\* C3: on every exit path of Orchestrator.run, tmp/{runId} is removed: once
\* the task of the run has ended the directory does not exist.
C3_TmpDirRemovedOnExit == pc = "done" => ~tmpDir

\* C4: for every run that emits pipeline_done, the data of the event, the
\* result in the registry (as GET /results serves it) and the document in
\* results/{runId}.json are the same report, the one buildResults built.
C4_ReportCoherence ==
  \A k \in DonePositions :
     /\ emitted[k].data = resultsFile
     /\ Served(run.result) = resultsFile
     /\ run.result = results

C4_Witness ==
  /\ DonePositions # {}
  /\ Len(results.timeline) >= 2
  /\ \E j \in 1..Len(results.fixes) : results.fixes[j].file = Undefined

\* C5: a live subscriber has received the events emitted since it connected,
\* in the order the pipeline produced them, and no event of the run is
\* emitted after its pipeline_done.
C5_EventOrder ==
  /\ \A c \in Clients : clients[c] = "open" => IsSuffix(received[c], emitted)
  /\ \A k \in DonePositions : k = Len(emitted)

C5_Witness ==
  /\ clients["ws1"] = "open"
  /\ Len(received["ws1"]) >= 3
  /\ Len(received["ws1"]) < Len(emitted)
  /\ Last(received["ws1"]).event = "pipeline_done"

\* C6: every submitted run eventually leaves status running, whatever the
\* clients do, provided each blocking step returns or throws.
C6_RunTerminates == (run.status = "running") ~> Terminal

C6_Witness ==
  /\ run.status = "error"
  /\ clients["ws1"] = "closing"

\* C7: once the registry status is completed, failed or error, no later step
\* changes the status, completedAt or result of the run.
C7_TerminalImmutable ==
  [][Terminal => /\ run'.status = run.status
                 /\ run'.completedAt = run.completedAt
                 /\ run'.result = run.result]_vars

C7_Witness ==
  /\ run.status = "completed"
  /\ pc = "done"
  /\ repoDir

\* C8: every run whose registry status is terminal has emitted exactly one
\* pipeline_done event, carrying its final report.
C8_TerminalHasDone ==
  Terminal => /\ Cardinality(DonePositions) = 1
              /\ \A k \in DonePositions : emitted[k].data = ToJson(results)

\* C9: monitorCI of iteration i is invoked only by the step in which the
\* re-test of iteration i failed; when it reports passed the run goes to the
\* report with finalStatus PASSED and a last timeline entry {i, CI_PASSED};
\* otherwise iteration i + 1 starts, or, when i = RETRY_LIMIT, the report is
\* built with finalStatus FAILED.
C9_TestThenCI ==
  \A k \in 1..Len(trace) :
    LET i == trace[k][1] IN
    /\ trace[k][2] = "monitorCI" =>
         /\ k > 1 /\ trace[k - 1] = <<i, "runTests">>
         /\ \E j \in 1..Len(timeline) :
              timeline[j] = [iteration |-> i, status |-> "FAILED"]
    /\ trace[k][2] = "ciPassed" =>
         /\ k = Len(trace)
         /\ pc \in {"saveResults", "cleanup", "done"}
         /\ finalStatus = "PASSED"
         /\ results.finalStatus = "PASSED"
         /\ Last(timeline) = [iteration |-> i, status |-> "CI_PASSED"]
    /\ trace[k][2] = "ciNotPassed" =>
         IF i < RETRY_LIMIT
         THEN k < Len(trace) /\ trace[k + 1] = <<i + 1, "generateFixes">>
         ELSE /\ k = Len(trace)
              /\ pc \in {"saveResults", "cleanup", "done"}
              /\ finalStatus = "FAILED"
              /\ results.finalStatus = "FAILED"
              /\ Last(timeline) = [iteration |-> i, status |-> "FAILED"]

C9_Witness ==
  /\ pc = "done"
  /\ \E k \in 1..Len(trace) : trace[k] = <<1, "ciNotPassed">>
  /\ Last(trace) = <<2, "ciPassed">>

\* C10: when generateFixes returns no proposal the timeline gets {i, NO_FIXES},
\* when applyFixes leaves no fix Fixed it gets {i, APPLY_FAILED}; in both
\* cases the report is built at once with finalStatus FAILED, no commit, push,
\* re-test or CI observation has happened in iteration i, and no later
\* iteration starts.
C10_NoFixEndsRun ==
  /\ [](\A k \in 1..Len(timeline) :
          timeline[k].status \in {"NO_FIXES", "APPLY_FAILED"} =>
            /\ k = Len(timeline)
            /\ pc \in {"saveResults", "cleanup", "done"}
            /\ results.finalStatus = "FAILED"
            /\ TraceSteps(timeline[k].iteration) \cap
                 {"commitAndPush", "pushBranch", "runTests", "monitorCI"} = {}
            /\ \A j \in 1..Len(trace) : trace[j][1] <= timeline[k].iteration)
  /\ [][/\ (pc = "invokeLLM" /\ fixes' = <<>>) =>
              Last(timeline') = [iteration |-> iteration, status |-> "NO_FIXES"]
        /\ (pc = "applyFixes" /\ allFixes' # allFixes
              /\ FixedCount(applyFixes(fixes)) = 0) =>
              Last(timeline') = [iteration |-> iteration,
                                 status |-> "APPLY_FAILED"]]_vars

C10_Witness ==
  /\ pc = "done"
  /\ RETRY_LIMIT = 2
  /\ Last(timeline) = [iteration |-> 1, status |-> "APPLY_FAILED"]
  /\ Len(allFixes) = 3

\* ---- exceptions, degraded fix generation, the scenarios ---------------------------

Reported == pc \in {"saveResults", "cleanup", "done"}

\* the repair iterations the run has started
IterationsStarted ==
  Cardinality({k \in 1..Len(trace) : trace[k][2] = "generateFixes"})

\* the calls of pushBranch
PushCalls == Cardinality({k \in 1..Len(trace) : trace[k][2] = "pushBranch"})

\* C11: when an agent step has thrown, the timeline ends with an ERROR entry
\* for the current iteration, the report is built at once with finalStatus
\* FAILED and holds every fix applied to the working tree and every commit
\* pushed before the exception, and once saveResults has returned the report
\* is in the registry, on disk and in the pipeline_done event.
C11_ErrorFinalized ==
  (timeline # <<>> /\ Last(timeline).status = "ERROR") =>
     /\ Last(timeline).iteration = iteration
     /\ Reported
     /\ results.finalStatus = "FAILED"
     /\ results.timeline = timeline
     /\ results.totalFixes = patched
     /\ results.totalCommits = pushed
     /\ run.status \in {"completed", "failed"} =>
          /\ run.status = "failed"
          /\ run.result = results
          /\ resultsFile = ToJson(results)
          /\ DonePositions # {}
          /\ \A k \in DonePositions : emitted[k].data = ToJson(results)

\* C12: when the response of the LLM holds no JSON array in iteration i, the
\* proposals are placeholders that the Patch Applier skips, so the timeline
\* ends with {i, APPLY_FAILED} and the report has finalStatus FAILED.
C12_DegradedMode ==
  \A k \in 1..Len(trace) :
     trace[k][2] = "noJsonArray" =>
        /\ Reported
        /\ Last(timeline) = [iteration |-> trace[k][1],
                             status |-> "APPLY_FAILED"]
        /\ results.finalStatus = "FAILED"

\* C13: when the re-test of every iteration 1..RETRY_LIMIT failed and CI did
\* not report a pass in any of them, the loop ran exactly RETRY_LIMIT
\* iterations, the timeline has RETRY_LIMIT + 1 entries, finalStatus is
\* FAILED and the scored iterationCount is RETRY_LIMIT: an iteration penalty
\* of 5 points for each iteration beyond the third, 10 for RETRY_LIMIT = 5.
C13_BudgetExhausted ==
  (/\ Reported
   /\ \A i \in 1..RETRY_LIMIT :
        \E k \in 1..Len(trace) : trace[k] = <<i, "ciNotPassed">>) =>
     /\ IterationsStarted = RETRY_LIMIT
     /\ Len(timeline) = RETRY_LIMIT + 1
     /\ \A j \in 1..Len(timeline) :
          timeline[j] = [iteration |-> j - 1, status |-> "FAILED"]
     /\ results.finalStatus = "FAILED"
     /\ results.timeline = timeline
     /\ iterationCount(results.timeline) = RETRY_LIMIT
     /\ results.scoreBreakdown.iterationPenalty =
          0 - 5 * Max(0, RETRY_LIMIT - 3)
     /\ RETRY_LIMIT = 5 => results.scoreBreakdown.iterationPenalty = 0 - 10

C13_Witness ==
  /\ pc = "done"
  /\ RETRY_LIMIT = 5
  /\ Len(timeline) = 6
  /\ results.scoreBreakdown.iterationPenalty = 0 - 10
  /\ results.totalCommits = 5

\* C14: when the initial tests failed, iteration 1 applied exactly one fix
\* and its re-test passed, the report has totalFixes = 1, totalCommits = 1,
\* the timeline [{0, FAILED}, {1, PASSED}] and finalStatus PASSED, the
\* branch was pushed exactly once and CI was never observed.
C14_OneShotFix ==
  (/\ Reported
   /\ Last(timeline) = [iteration |-> 1, status |-> "PASSED"]
   /\ patched = 1) =>
     /\ timeline = <<[iteration |-> 0, status |-> "FAILED"],
                     [iteration |-> 1, status |-> "PASSED"]>>
     /\ results.totalFixes = 1
     /\ results.totalCommits = 1
     /\ results.finalStatus = "PASSED"
     /\ PushCalls = 1
     /\ pushed = 1
     /\ \A k \in 1..Len(trace) : trace[k][2] # "monitorCI"

\* C15: when the initial test command exited 0, the timeline is exactly
\* [{0, PASSED}], the report has totalFailures = 0, totalFixes = 0,
\* totalCommits = 0 and finalStatus PASSED, and no fix generation, patching,
\* commit, push or CI observation has occurred.
C15_GreenFirstRun ==
  (timeline # <<>> /\ timeline[1] = [iteration |-> 0, status |-> "PASSED"]) =>
     /\ timeline = <<[iteration |-> 0, status |-> "PASSED"]>>
     /\ Reported
     /\ results.timeline = timeline
     /\ results.totalFailures = 0
     /\ results.totalFixes = 0
     /\ results.totalCommits = 0
     /\ results.finalStatus = "PASSED"
     /\ trace = << <<0, "analyze">> >>
     /\ patched = 0
     /\ pushed = 0
     /\ \A k \in 1..Len(emitted) :
          emitted[k].event \notin {"iteration_start", "fix_generate_start",
                                   "fix_applied", "branch_ready", "committed",
                                   "pushed", "ci_trigger_start"}

C15_Witness ==
  /\ pc = "done"
  /\ run.status = "completed"
  /\ timeline[1].status = "PASSED"
  /\ ~tmpDir

\* C16: the iterationCount given to scoring equals the number of repair
\* iterations the run started, however the run ended.
C16_IterationCount ==
  Reported => iterationCount(results.timeline) = IterationsStarted

\* ---- scoring ---------------------------------------------------------------------

Scored == arg.fn = "computeScore" /\ ret # NoRet

\* C17: for non-negative integer inputs, total = max(0, 100 + speedBonus +
\* fixBonus - commitPenalty - iterationPenalty), with speedBonus 10 iff
\* totalTimeMs < 300000, fixBonus 2 * min(fixCount, 20), commitPenalty
\* 2 * max(0, commitCount - 20) and iterationPenalty 5 * max(0,
\* iterationCount - 3); commitCount 25, fixCount 10, iterationCount 3,
\* totalTimeMs 200000 give 120.
C17_ScoreFormula ==
  (Scored /\ arg.totalTime >= 0) =>
     LET sb == IF arg.totalTime < 300000 THEN 10 ELSE 0
         fb == 2 * Min(arg.fixCount, 20)
         cp == 2 * Max(0, arg.commitCount - 20)
         ip == 5 * Max(0, arg.iterationCount - 3)
     IN /\ ret.base = 100
        /\ ret.speedBonus = sb
        /\ ret.fixBonus = fb
        /\ ret.commitPenalty = 0 - cp
        /\ ret.iterationPenalty = 0 - ip
        /\ ret.total = Max(0, 100 + sb + fb - cp - ip)
        /\ (arg.commitCount = 25 /\ arg.fixCount = 10
              /\ arg.iterationCount = 3 /\ arg.totalTime = 200000) =>
             ret.total = 120

C17_Witness ==
  /\ Scored
  /\ arg.commitCount = 25 /\ arg.fixCount = 10
  /\ arg.iterationCount = 3 /\ arg.totalTime = 200000
  /\ ret.total = 120

\* C18: for every input, 0 <= total <= base + speedBonus + fixBonus, the
\* three being the values of the same breakdown.
C18_TotalBounds ==
  Scored => /\ 0 <= ret.total
            /\ ret.total <= ret.base + ret.speedBonus + ret.fixBonus

C18_Witness ==
  /\ Scored
  /\ ret.total = 0
  /\ ret.base + ret.speedBonus + ret.fixBonus = 150

\* ---- the branch name ------------------------------------------------------------------

\* C20: the branch name is one or more non-empty tokens of upper-case letters
\* and digits, joined by single underscores and followed by _AI_Fix: it
\* holds no white space, no empty token and no two adjacent underscores.
C20_BranchFormat ==
  (arg.fn = "generateBranchName" /\ ret # NoRet) =>
     LET name == ret.branch
         n    == Len(name)
         body == SubSeq(name, 1, n - Len(Suffix))
     IN /\ n > Len(Suffix)
        /\ SubSeq(name, n - Len(Suffix) + 1, n) = Suffix
        /\ \A k \in 1..Len(body) : body[k] \in {"A", "B", "7", "_"}
        /\ body[1] # "_"
        /\ body[Len(body)] # "_"
        /\ \A k \in 1..(n - 1) : ~(name[k] = "_" /\ name[k + 1] = "_")

\* ---- patch safety ------------------------------------------------------------------------

\* bytes i+1..j of the file are an occurrence of originalCode
IsTargetSubstring(before, i, j, fix) ==
  utf8Decode(SubSeq(before, i + 1, j)) = fix.originalCode

\* bytes i+1..j of the file are its line lineNumber
IsTargetLine(before, i, j, fix) ==
  /\ fix.lineNumber # 0
  /\ i = 0 \/ before[i] = "nl"
  /\ j = Len(before) \/ before[j + 1] = "nl"
  /\ \A k \in (i + 1)..j : before[k] # "nl"
  /\ Cardinality({k \in 1..i : before[k] = "nl"}) = fix.lineNumber - 1

\* after is before with bytes i+1..j replaced and nothing else touched
DiffersOnlyIn(before, after, i, j) ==
  /\ Len(after) >= Len(before) - (j - i)
  /\ SubSeq(after, 1, i) = SubSeq(before, 1, i)
  /\ SubSeq(after, Len(after) - (Len(before) - j) + 1, Len(after))
       = SubSeq(before, j + 1, Len(before))

\* C19: after applyFixes has processed a list of proposals, every pass left
\* the file byte-identical or changed it only in the substring or the line
\* its proposal targets, the proposal being Fixed; a Skipped or Failed
\* proposal changed nothing.
C19_PatchSafety ==
  (arg.fn = "applyFixes" /\ ret # NoRet) =>
     \A k \in 1..Len(ret.passes) :
        LET before == ret.passes[k].before
            after  == ret.passes[k].after
        IN \/ after = before
           \/ /\ ret.passes[k].status = "Fixed"
              /\ \E i \in 0..Len(before) : \E j \in i..Len(before) :
                   /\ DiffersOnlyIn(before, after, i, j)
                   /\ \/ IsTargetSubstring(before, i, j, ret.passes[k].fix)
                      \/ IsTargetLine(before, i, j, ret.passes[k].fix)

\* ---- the classifier --------------------------------------------------------------------

Triple(e) == <<e.file, e.lineNumber, e.bugType>>

\* C21: parseErrorLog returns a list in which an entry has kind UNKNOWN only
\* if its source line contains "Error" or "FAIL"; a line that matches no
\* rule and contains neither substring yields no entry; and no two entries
\* share their (file, line, kind) triple.
C21_ClassifierEntries ==
  (arg.fn = "parseErrorLog" /\ ret # NoRet) =>
     LET errors == ret.errors
     IN /\ Len(errors) <= Len(arg.rawLog)
        /\ \A k \in 1..Len(errors) :
              errors[k].bugType = "UNKNOWN" =>
                 \/ errors[k].rawMessage.msg \in {"Error: boom", "SyntaxError: eslint"}
                 \/ errors[k].rawMessage.msg = "FAIL suite"
        /\ \A n \in 1..Len(arg.rawLog) :
              arg.rawLog[n].msg \in {"error: boom", "  "} =>
                 \A k \in 1..Len(errors) : errors[k].rawMessage # arg.rawLog[n]
        /\ \A k, m \in 1..Len(errors) :
              Triple(errors[k]) = Triple(errors[m]) => k = m

\* a log with a dropped line and two FAIL lines at one location, of which
\* one entry of kind UNKNOWN remains
C21_Witness ==
  /\ arg.fn = "parseErrorLog"
  /\ ret # NoRet
  /\ Len(arg.rawLog) = 3
  /\ arg.rawLog[1].msg = "error: boom"
  /\ arg.rawLog[2].msg = "FAIL suite"
  /\ arg.rawLog[3].msg = "FAIL suite"
  /\ arg.rawLog[2].loc # NoLoc
  /\ extractLocation(arg.rawLog[2]) = extractLocation(arg.rawLog[3])
  /\ arg.rawLog[2] # arg.rawLog[3]
  /\ Len(ret.errors) = 1
  /\ ret.errors[1].bugType = "UNKNOWN"

\* ---- fan-out to the subscribers -----------------------------------------------------

\* the payloads broadcast by the step
NewEvents == SubSeq(emitted', Len(emitted) + 1, Len(emitted'))

C23_PollShowsStream ==
  (run # NoRun /\ run.status = "running") =>
     getResults(run).logs
       = slice([k \in 1..Len(emitted) |-> emitted[k].event], LogWindow)

\* ---- a repository without workflows ------------------------------------------------

\* C24: when monitorCI of iteration i finds no workflow to trigger, nothing
\* is dispatched or polled in iteration i, the timeline gets no CI_PASSED
\* entry for i, iteration i + 1 starts or, when i = RETRY_LIMIT, the report is
\* built with finalStatus FAILED; and whenever the run has reached its
\* report, the report carries the run's final status, timeline and totals.
C24_NoCi ==
  \A k \in 1..Len(trace) :
    trace[k][2] = "no_ci" =>
      LET i == trace[k][1] IN
      /\ TraceSteps(i) \cap {"createWorkflowDispatch", "pollWorkflowStatus",
                             "ciPassed"} = {}
      /\ \A j \in 1..Len(timeline) :
            timeline[j] # [iteration |-> i, status |-> "CI_PASSED"]
      /\ IF i < RETRY_LIMIT
         THEN \E m \in (k + 1)..Len(trace) : trace[m] = <<i + 1, "generateFixes">>
         ELSE /\ Reported
              /\ finalStatus = "FAILED"
      /\ Reported =>
           /\ results # NoReport
           /\ results.finalStatus = finalStatus
           /\ results.timeline = timeline
           /\ results.totalCommits = totalCommits
           /\ results.totalFixes = FixedCount(allFixes)
           /\ results.totalFailures = totalFailures

\* neither iteration of a run with RETRY_LIMIT 2 found a workflow
C24_Witness ==
  /\ pc = "done"
  /\ RETRY_LIMIT = 2
  /\ \E k \in 1..Len(trace) : trace[k] = <<1, "no_ci">>
  /\ \E k \in 1..Len(trace) : trace[k] = <<2, "no_ci">>
  /\ results.finalStatus = "FAILED"
  /\ Len(results.timeline) = 3

\* ---- the sandbox executor ---------------------------------------------------------------

\* C25: in the container variant and in the native fallback alike, a command
\* that was started and exceeds the timeout yields exit code 124 and the
\* TIMEOUT marker as stderr.
C25_TimeoutResult ==
  (arg.fn = "runInDocker" /\ ret # NoRet /\ ~ret.threw /\ ret.started
     /\ arg.env.runs = "overruns") =>
     /\ ret.exitCode = TimeoutExitCode
     /\ ret.stderr = TimeoutMarker

\* C26: when the image cannot be pulled or the container cannot be created,
\* runInDocker does not throw: it returns a non-zero exit code and the
\* failure text as stderr.
C26_InfraFailureReturned ==
  (/\ arg.fn = "runInDocker" /\ ret # NoRet
   /\ arg.env.available
   /\ \/ arg.env.inspect = "fails" /\ arg.env.pull = "fails"
      \/ arg.env.create = "fails") =>
     /\ ~ret.threw
     /\ ret.exitCode # 0
     /\ ret.stderr \in {"pull failed", "create failed"}

\* ---- a failed push ------------------------------------------------------------------------

\* the positions of the trace at which pushBranch threw
PushFailures ==
  {k \in 2..Len(trace) :
     trace[k][2] = "throws" /\ trace[k - 1] = <<trace[k][1], "pushBranch">>}

\* C27: when git push fails in iteration i, the timeline ends with
\* {i, ERROR}, neither the re-test nor the CI observation of iteration i
\* runs, no later iteration starts, and the report is built with finalStatus
\* FAILED.
C27_PushFailureIsIterationError ==
  \A k \in PushFailures :
    LET i == trace[k][1] IN
    /\ k = Len(trace)
    /\ Last(timeline) = [iteration |-> i, status |-> "ERROR"]
    /\ TraceSteps(i) \cap {"runTests", "monitorCI"} = {}
    /\ iteration = i
    /\ Reported
    /\ finalStatus = "FAILED"
    /\ results.finalStatus = "FAILED"

\* the push of the second iteration failed
C27_Witness ==
  /\ PushFailures # {}
  /\ iteration = 2
  /\ pc = "done"
  /\ pushed = 1
  /\ Len(timeline) = 3

\* ---- the order of the agent steps -------------------------------------------------------

AgentSteps == {"analyze", "generateFixes", "applyFixes", "commitAndPush",
               "runTests", "monitorCI"}

\* the agent steps of the run in the order they were started
StepTrace == SelectSeq(trace, LAMBDA e : e[2] \in AgentSteps)

\* the step that may start after step e has finished
NextStep(e) ==
  CASE e[2] = "analyze"       -> <<1, "generateFixes">>
    [] e[2] = "generateFixes" -> <<e[1], "applyFixes">>
    [] e[2] = "applyFixes"    -> <<e[1], "commitAndPush">>
    [] e[2] = "commitAndPush" -> <<e[1], "runTests">>
    [] e[2] = "runTests"      -> <<e[1], "monitorCI">>
    [] e[2] = "monitorCI"     -> <<e[1] + 1, "generateFixes">>

\* the awaits of each agent step
AwaitsOf(step) ==
  CASE step = "analyze"       -> {"ensureDir", "clone", "detectProject",
                                  "discoverTests", "analyzeTests"}
    [] step = "generateFixes" -> {"gatherContext", "invokeLLM"}
    [] step = "applyFixes"    -> {"applyFixes"}
    [] step = "commitAndPush" -> {"ensureBranch", "commitFixes", "pushBranch"}
    [] step = "runTests"      -> {"retest"}
    [] step = "monitorCI"     -> {"triggerWorkflow", "pollWorkflowStatus"}

C29_FallbackChain ==
  chain # NoChain =>
    LET calls == chain.calls
        limited(c) == c.outcome \in {"429", "quota"}
    IN /\ Len(calls) <= 3 * chain.models
       /\ calls # <<>> => calls[1].model = 1 /\ calls[1].attempt = 1
       /\ \A k \in 1..Len(calls) :
            /\ calls[k].attempt \in 1..3
            /\ calls[k].model \in 1..chain.models
            /\ ~limited(calls[k]) =>
                 /\ k = Len(calls)
                 /\ chain.at = IF calls[k].outcome = "ok" THEN "returned"
                               ELSE "threw"
                 /\ calls[k].outcome = "ok" => ret = [response |-> calls[k].model]
                 /\ calls[k].outcome # "ok" => ret = [error |-> calls[k].outcome]
            /\ calls[k].delay = IF limited(calls[k]) /\ calls[k].attempt = 1 THEN 15
                                ELSE IF limited(calls[k]) /\ calls[k].attempt = 2 THEN 30
                                ELSE 0
       /\ \A k \in 1..(Len(calls) - 1) :
            IF calls[k].attempt < 3
            THEN /\ calls[k + 1].model = calls[k].model
                 /\ calls[k + 1].attempt = calls[k].attempt + 1
            ELSE /\ calls[k + 1].model = calls[k].model + 1
                 /\ calls[k + 1].attempt = 1
       /\ chain.at \in {"returned", "threw"} <=> ret # NoRet

\* three models, each rate-limited three times
C29_Witness ==
  /\ chain # NoChain
  /\ chain.models = 3
  /\ Len(chain.calls) = 9
  /\ chain.at = "threw"
  /\ ret = [error |-> "exhausted"]

\* ---- the degraded mode ------------------------------------------------------------------

\* C30: when the LLM call of iteration i failed, generateFixes returns one
\* proposal without code for each of the n parsed errors, applyFixes marks
\* every one of them Skipped, and the run goes to its report with finalStatus
\* FAILED and a timeline that holds no ERROR entry.
C30_LlmFailureDegrades ==
  \A k \in 1..Len(trace) :
    trace[k][2] = "llmFailed" =>
      LET i == trace[k][1]
          n == trace[k][3]
      IN /\ iteration = i
         /\ \A j \in 1..Len(timeline) : timeline[j].status # "ERROR"
         /\ \A j \in 1..Len(trace) : trace[j][2] # "throws"
         /\ IF pc = "applyFixes"
            THEN /\ Len(fixes) = n
                 /\ \A j \in 1..n : ~fixes[j].complete
            ELSE /\ Reported
                 /\ finalStatus = "FAILED"
                 /\ Last(timeline) =
                      [iteration |-> i,
                       status |-> IF n = 0 THEN "NO_FIXES" ELSE "APPLY_FAILED"]
                 /\ Len(allFixes) >= n
                 /\ \A j \in (Len(allFixes) - n + 1)..Len(allFixes) :
                       allFixes[j].status = "Skipped"
                 /\ TraceSteps(i) \cap {"commitAndPush", "pushBranch",
                                        "runTests", "monitorCI"} = {}

\* the LLM call of the second iteration failed with two parsed errors
C30_Witness ==
  /\ pc = "done"
  /\ \E k \in 1..Len(trace) : trace[k] = <<2, "llmFailed", 2>>
  /\ Len(allFixes) >= 3
  /\ Last(timeline) = [iteration |-> 2, status |-> "APPLY_FAILED"]

\* ---- the status rules of applyFixes -----------------------------------------------------

\* the status and reason the rules give a proposal for a file of the given
\* bytes
RuleStatus(bytes, fix) ==
  LET content == utf8Decode(bytes) IN
  IF fix.file = "" \/ fix.originalCode = <<>> \/ fix.fixedCode = <<>>
  THEN <<"Skipped", "">>
  ELSE IF fix.file = "gone.js" THEN <<"Failed", "File not found">>
  ELSE IF includes(content, fix.originalCode) THEN <<"Fixed", "">>
  ELSE IF fix.lineNumber >= 1 /\ fix.lineNumber <= Len(split(content))
  THEN <<"Fixed", "">>
  ELSE <<"Failed", "Original code not found">>

\* C31: applyFixes yields one applied fix for each proposal, in input order;
\* as long as the file system does not fail, its status is Skipped for an
\* incomplete proposal, Failed (File not found) for a missing file, Fixed
\* when originalCode occurs in the file, whose first occurrence is replaced,
\* else Fixed when 1 <= lineNumber <= number of lines, that line being
\* overwritten, else Failed (Original code not found).
C31_StatusRules ==
  (arg.fn = "applyFixes" /\ ret # NoRet) =>
     /\ Len(ret.passes) = Len(arg.fixes)
     /\ \A k \in 1..Len(ret.passes) :
          LET pass    == ret.passes[k]
              content == utf8Decode(pass.before)
          IN /\ pass.fix = arg.fixes[k]
             /\ pass.io = "ok" =>
                  /\ <<pass.status, pass.reason>> = RuleStatus(pass.before, pass.fix)
                  /\ pass.status # "Fixed" => pass.after = pass.before
                  /\ (pass.status = "Fixed"
                        /\ includes(content, pass.fix.originalCode)) =>
                       pass.after = utf8Encode(replaceFirst(content,
                                       pass.fix.originalCode, pass.fix.fixedCode))

\* ---- the commits of one iteration -------------------------------------------------------

\* the commits that a step adds to the history
NewCommits == SubSeq(gitLog', Len(gitLog) + 1, Len(gitLog'))

Polling == pc = "pollWorkflowStatus"

\* the entries that a step adds to the trace
NewTrace == SubSeq(trace', Len(trace) + 1, Len(trace'))

C34_NoContainerLeft ==
  (arg.fn = "runInDocker" /\ ret # NoRet) => ret.container # "left"

\* ---- the final report -------------------------------------------------------------------

\* the statuses of a timeline entry after which the run has passed
PassStatuses == {"PASSED", "CI_PASSED"}

\* C35: once the report is built, its timeline is not empty and its
\* finalStatus is PASSED exactly when the last timeline entry is PASSED or
\* CI_PASSED; with a last entry FAILED, NO_FIXES, APPLY_FAILED or ERROR it is
\* FAILED.
C35_FinalStatusOfLastEntry ==
  results # NoReport =>
     /\ results.timeline # <<>>
     /\ results.finalStatus \in {"PASSED", "FAILED"}
     /\ (results.finalStatus = "PASSED") =
          (Last(results.timeline).status \in PassStatuses)
     /\ Last(results.timeline).status \in
          PassStatuses \cup {"FAILED", "NO_FIXES", "APPLY_FAILED", "ERROR"}

\* reports whose last entry is CI_PASSED after a failed re-test, and reports
\* that end with ERROR, are built
C35_Witness ==
  /\ results # NoReport
  /\ Len(results.timeline) = 3
  /\ results.timeline[2].status = "FAILED"
  /\ Last(results.timeline).status = "CI_PASSED"
  /\ results.finalStatus = "PASSED"

\* the timeline entries of tl whose status is FAILED
FailedEntries(tl) == {k \in 1..Len(tl) : tl[k].status = "FAILED"}

\* C36: once the report is built, its totalFailures is the number of its
\* timeline entries whose status is FAILED, one for the initial analysis and
\* one for each re-test that did not pass.
C36_TotalFailures ==
  results # NoReport =>
     results.totalFailures = Cardinality(FailedEntries(results.timeline))

\* a report after two failed test runs and an exception in the second
\* iteration
C36_Witness ==
  /\ results # NoReport
  /\ results.totalFailures = 2
  /\ Last(results.timeline).status = "ERROR"
  /\ Len(results.timeline) = 3

\* ---- the run registry -------------------------------------------------------------------

\* C37: a registry entry is running exactly when its result and its
\* completedAt are both null, and an entry that is completed, failed or
\* error has a result and a completedAt, so that GET /results/:runId never
\* answers a terminal status without a result.
C37_RegistryEntry ==
  run # NoRun =>
     /\ run.status \in {"running", "completed", "failed", "error"}
     /\ (run.status = "running") =
          (run.result = NoReport /\ run.completedAt = FALSE)
     /\ run.status # "running" =>
          /\ run.result # NoReport
          /\ run.completedAt = TRUE
          /\ getResults(run).result # NoReport
          /\ getResults(run).completedAt = TRUE

\* an entry that became failed through updateRun of Orchestrator.run, with
\* the report as its result
C37_Witness ==
  /\ run # NoRun
  /\ run.status = "failed"
  /\ run.result = results
  /\ run.completedAt = TRUE
  /\ Last(timeline).status = "NO_FIXES"

\* ---- the report, the registry and pipeline_done -----------------------------------------

\* the registry entry became terminal through updateRun of Orchestrator.run
EndedByOrchestrator == run # NoRun /\ run.status \in {"completed", "failed"}

\* the answer of GET /results/:runId is terminal and carries the report that
\* the payload p of pipeline_done carries
PollShowsReport(p) ==
  /\ EndedByOrchestrator
  /\ getResults(run).status \in {"completed", "failed"}
  /\ getResults(run).result = results
  /\ ToJson(getResults(run).result) = p.data

\* C38: when the registry entry has become terminal through the
\* Orchestrator, results/{runId}.json holds the report; when pipeline_done
\* has been emitted the entry is terminal; so from the moment a client has
\* been sent pipeline_done, GET /results/:runId answers with the terminal
\* status and the report, never with processing.
C38_ReportThenRegistryThenDone ==
  /\ EndedByOrchestrator =>
       run.result = results /\ resultsFile = ToJson(results)
  /\ \A k \in 1..Len(emitted) :
       emitted[k].event = "pipeline_done" => PollShowsReport(emitted[k])
  /\ \A c \in DOMAIN received : \A k \in 1..Len(received[c]) :
       received[c][k].event = "pipeline_done" =>
          PollShowsReport(received[c][k])

\* a client was sent pipeline_done of a run that failed, and the working
\* directory is being removed
C38_Witness ==
  /\ pc = "cleanup"
  /\ run.status = "failed"
  /\ resultsFile # NoFile
  /\ \E c \in DOMAIN received :
       received[c] # <<>> /\ Last(received[c]).event = "pipeline_done"

\* ---- the workflow run taken as the CI outcome -------------------------------------------

\* C39: a completed workflow run that pollWorkflowStatus returns in iteration
\* i was created for the push of iteration i, so an iteration that ends with
\* CI_PASSED rests on the run of its own push and never on a run of an
\* earlier push or of the time before this pipeline run.
C39_OutcomeOfOwnPush ==
  \A k \in 1..Len(trace) :
     trace[k] = <<trace[k][1], "ciPassed">> =>
        /\ k > 1
        /\ trace[k - 1][2] = "completed"
        /\ trace[k - 1][4] = trace[k][1]

====
